---- MODULE Spec2Model ----
(***************************************************************************)
(* Secure random-identifier generation of the Cardholder API:              *)
(* generateNanoID (mask + rejection sampling over an arbitrary alphabet)   *)
(* and the charset engine (generateSecureRandomString and the exported     *)
(* generators built on it), driven by a byte source.                       *)
(*                                                                         *)
(* Strings are sequences of one-character strings; index k of a JS string  *)
(* or array is position k + 1 of the sequence.  The byte source is a       *)
(* stream: a call is handed a finite pattern of bytes that the source      *)
(* delivers cyclically, so every fill takes the next n bytes of the        *)
(* stream.                                                                 *)
(***************************************************************************)
EXTENDS Integers, Sequences, FiniteSets, TLC

(***************************************************************************)
(* Bounds of the model.                                                    *)
(***************************************************************************)
\* longest byte pattern a stream repeats
MaxStream == 2
\* bytes one call may examine before the model stops following it
MaxExamined == 60

\* the byte values the source delivers: 0 (first index), 37 (accepted by
\* every sampler), 241 (49 under mask 63: the first value a 49-symbol
\* alphabet rejects), 250 (10 under mask 15, 58 under mask 63, and the first
\* byte a 10-symbol charset rejects), 255 (rejected by every mask whose
\* alphabet is no power of two)
ByteSet == {0, 37, 241, 250, 255}

RECURSIVE SeqsOfLen(_, _)
SeqsOfLen(S, n) ==
    IF n = 0 THEN {<<>>}
    ELSE {Append(s, x) : s \in SeqsOfLen(S, n - 1), x \in S}

Streams == UNION {SeqsOfLen(ByteSet, n) : n \in 1..MaxStream}

(***************************************************************************)
(* Program constants.                                                      *)
(***************************************************************************)
\* number of values of one element of a Uint8Array
ByteValues == 256

\* ALPHABET
ALPHABET_DEFAULT ==
    <<
       "0", "1", "2", "3", "4", "5", "6", "7", "8", "9", "A", "B", "C", "D", "E", "F",
       "G", "H", "I", "J", "K", "L", "M", "N", "O", "P", "Q", "R", "S", "T", "U", "V",
       "W", "X", "Y", "Z", "a", "b", "c", "d", "e", "f", "g", "h", "i", "j", "k", "l",
       "m", "n", "o", "p", "q", "r", "s", "t", "u", "v", "w", "x", "y", "z", "-", "_"
    >>
ALPHABET_NO_CONFUSION ==
    <<
       "3", "4", "6", "7", "8", "9", "A", "B", "C", "D", "E", "F", "G", "H", "J", "K",
       "L", "M", "N", "P", "Q", "R", "T", "U", "V", "W", "X", "Y", "a", "b", "c", "d",
       "e", "f", "g", "h", "i", "j", "k", "m", "n", "p", "q", "r", "t", "w", "x", "y",
       "z"
    >>
ALPHABET_HEX == <<"0", "1", "2", "3", "4", "5", "6", "7", "8", "9", "a", "b", "c", "d", "e", "f">>
ALPHABET_NUMERIC == <<"0", "1", "2", "3", "4", "5", "6", "7", "8", "9">>

\* the names of the entries of ALPHABET, as the strings they are at run time
ALPHABET_KEYS ==
    {<<"D", "E", "F", "A", "U", "L", "T">>,
     <<"N", "O", "_", "C", "O", "N", "F", "U", "S", "I", "O", "N">>,
     <<"H", "E", "X">>,
     <<"N", "U", "M", "E", "R", "I", "C">>}

ALPHABET(key) ==
    CASE key = <<"D", "E", "F", "A", "U", "L", "T">> -> ALPHABET_DEFAULT
      [] key = <<"N", "O", "_", "C", "O", "N", "F", "U", "S", "I", "O", "N">> -> ALPHABET_NO_CONFUSION
      [] key = <<"H", "E", "X">> -> ALPHABET_HEX
      [] key = <<"N", "U", "M", "E", "R", "I", "C">> -> ALPHABET_NUMERIC

MIN_RECOMMENDED_ENTROPY == 64


\* utils/functions: the charsets of the charset engine
LOWERCASE_CHARS ==
    <<
       "a", "b", "c", "d", "e", "f", "g", "h", "i", "j", "k", "l", "m",
       "n", "o", "p", "q", "r", "s", "t", "u", "v", "w", "x", "y", "z"
    >>
UPPERCASE_CHARS ==
    <<
       "A", "B", "C", "D", "E", "F", "G", "H", "I", "J", "K", "L", "M",
       "N", "O", "P", "Q", "R", "S", "T", "U", "V", "W", "X", "Y", "Z"
    >>
NUMERIC_CHARS == <<"0", "1", "2", "3", "4", "5", "6", "7", "8", "9">>
HEX_CHARS == <<"0", "1", "2", "3", "4", "5", "6", "7", "8", "9", "a", "b", "c", "d", "e", "f">>
ALPHANUMERIC_CHARS == LOWERCASE_CHARS \o UPPERCASE_CHARS \o NUMERIC_CHARS
URL_SAFE_CHARS == ALPHANUMERIC_CHARS \o <<"-", "_">>

(***************************************************************************)
(* JavaScript values.                                                      *)
(***************************************************************************)
\* the value undefined (a missing argument, a read past the end of a string)
Undefined == "undefined"
\* an element of new Array(n) that was never assigned
Hole == "<empty>"

\* an argument: a number num/den (den = 1 for integers, den = 2 for halves),
\* a string, a Symbol, or a missing argument
Num(n) == [type |-> "number", num |-> n, den |-> 1]
Half(n) == [type |-> "number", num |-> n, den |-> 2]
Str(s) == [type |-> "string", val |-> s]
Sym(s) == [type |-> "symbol", val |-> s]
Missing == [type |-> "undefined"]
TypeOf(a) == a.type
NumberIsInteger(x) == x.num % x.den = 0
IntOf(x) == x.num \div x.den

\* str[idx]: undefined past the end
CharAt(str, idx) == IF idx >= 0 /\ idx < Len(str) THEN str[idx + 1] ELSE Undefined

\* result += c: undefined is appended as the nine characters of its name
StrAppend(result, c) ==
    IF c = Undefined
    THEN result \o <<"u", "n", "d", "e", "f", "i", "n", "e", "d">>
    ELSE Append(result, c)

\* new Array(n)
NewArray(n) == [k \in 1..n |-> Hole]

\* arr.join(""): holes and undefined elements contribute nothing
IsChar(c) == c # Hole /\ c # Undefined
Join(arr) == SelectSeq(arr, IsChar)

\* [...new Set(str)].join(""): the first occurrence of every character, in order
RECURSIVE Dedupe(_)
Dedupe(str) ==
    IF str = <<>> THEN <<>>
    ELSE LET init == Dedupe(SubSeq(str, 1, Len(str) - 1))
             last == str[Len(str)]
         IN  IF \E k \in 1..Len(init) : init[k] = last THEN init ELSE Append(init, last)

Min(a, b) == IF a <= b THEN a ELSE b
Max(a, b) == IF a >= b THEN a ELSE b
\* Math.ceil(num / den) for num >= 0, den > 0
CeilDiv(num, den) == (num + den - 1) \div den

RECURSIVE BitAnd(_, _)
BitAnd(a, b) ==
    IF a = 0 \/ b = 0 THEN 0
    ELSE (a % 2) * (b % 2) + 2 * BitAnd(a \div 2, b \div 2)

RECURSIVE BitOr(_, _)
BitOr(a, b) ==
    IF a = 0 THEN b
    ELSE IF b = 0 THEN a
    ELSE (IF a % 2 = 1 \/ b % 2 = 1 THEN 1 ELSE 0) + 2 * BitOr(a \div 2, b \div 2)

RECURSIVE BitLength(_)
BitLength(x) == IF x = 0 THEN 0 ELSE 1 + BitLength(x \div 2)

\* Math.clz32(x) for 0 <= x < 2^31
Clz32(x) == 32 - BitLength(x)

\* 2 << k on 32-bit integers
Shl2(k) ==
    CASE k < 30 -> 2 * (2 ^ k)
      [] k = 30 -> (-2147483647) - 1
      [] OTHER -> 0

(***************************************************************************)
(* len ^ size >= 2 ^ 64, on 16-bit limbs (least significant first).        *)
(***************************************************************************)
Limb == 2 ^ 16

RECURSIVE MulLimbs(_, _, _)
\* limbs * m + carry, as limbs followed by the carry out of the last limb
MulLimbs(limbs, m, carry) ==
    IF limbs = <<>> THEN <<carry>>
    ELSE LET t == limbs[1] * m + carry
         IN  <<t % Limb>> \o MulLimbs(Tail(limbs), m, t \div Limb)

RECURSIVE PowReaches64(_, _, _)
\* acc * base ^ exp >= 2 ^ 64, for acc < 2 ^ 64 held in four limbs
PowReaches64(acc, base, exp) ==
    IF exp = 0 THEN FALSE
    ELSE LET p == MulLimbs(acc, base, 0)
         IN  IF p[5] > 0 THEN TRUE
             ELSE PowReaches64(SubSeq(p, 1, 4), base, exp - 1)

(***************************************************************************)
(* nanoId: the helpers of generateNanoID.                                  *)
(***************************************************************************)
\* n & (n - 1 === 0): the comparison binds tighter than & when the parentheses
\* are left out, and no n >= 2 passes
isPowerOf2_Precedence(n) == BitAnd(n, IF n - 1 = 0 THEN 1 ELSE 0) # 0 /\ n > 0

isPowerOf2(n) == BitAnd(n, n - 1) = 0 /\ n > 0

RECURSIVE PowExceeds64(_, _, _)
\* acc * base ^ exp > 2 ^ 64
PowExceeds64(acc, base, exp) ==
    IF exp = 0 THEN FALSE
    ELSE LET p == MulLimbs(acc, base, 0)
         IN  IF p[5] > 0 THEN p # <<0, 0, 0, 0, 1>> \/ exp > 1
             ELSE PowExceeds64(SubSeq(p, 1, 4), base, exp - 1)

\* entropyPerChar * size > MIN_RECOMMENDED_ENTROPY: exactly 64 bits draw the advisory
hasAdequateEntropy_Strict(size, alphabetLength) ==
    PowExceeds64(<<1, 0, 0, 0>>, alphabetLength, size)

\* Math.log2(alphabetLength) * size >= MIN_RECOMMENDED_ENTROPY.  In exact
\* arithmetic this is alphabetLength ^ size >= 2 ^ 64; binary64 agrees with
\* it for every alphabet length below 1000 and size below 70 (no product
\* of a non-power-of-two comes within 0.005 of 64).
hasAdequateEntropy(size, alphabetLength) ==
    PowReaches64(<<1, 0, 0, 0>>, alphabetLength, size)

\* the mask of the power-of-two path used on the general path too
GeneralMask_LenMinus1(len) == len - 1

\* the shift taken one bit further: 2 << (32 - Math.clz32((len - 1) | 1))
MaskShift_OneBitMore(len) == Shl2(32 - Clz32(BitOr(len - 1, 1)))

\* 2 << (31 - Math.clz32((len - 1) | 1)), a 32-bit integer
MaskShift(len) == Shl2(31 - Clz32(BitOr(len - 1, 1)))

\* (2 << (31 - Math.clz32((len - 1) | 1))) - 1
GeneralMask(len) == MaskShift(len) - 1

\* Math.ceil((efficiency * mask * size) / len), efficiency 1.0, 1.1 or 1.5
\* as tenths.  binary64 gives one more when efficiency is 1.1 and the
\* quotient is an integer for some sizes (len 7 with size 10 or 20); for the
\* sizes of this model it agrees with the exact quotient.
calculateOptimalStep(mask, size, len) ==
    LET efficiency10 == IF isPowerOf2(len) THEN 10 ELSE IF len < 16 THEN 11 ELSE 15
    IN  CeilDiv(efficiency10 * mask * size, 10 * len)

\* the mask applied with | for &
MaskByte_Or(byte, mask) == BitOr(byte, mask)

\* const r = bytes[j] & mask
MaskByte(byte, mask) == BitAnd(byte, mask)

\* if (r > len) continue: the value len itself is accepted
Rejects_OffByOne(r, len) == r > len

\* if (r >= len) continue
Rejects(r, len) == r >= len

(***************************************************************************)
(* State.                                                                  *)
(***************************************************************************)
VARIABLES
    pc,         \* where the running call is: "idle", a loop, "done" or "error"
    fn,         \* the exported function that was called
    args,       \* its arguments
    stream,     \* the pattern the byte source delivers, cyclically
    pos,        \* position of the source in the pattern
    bytes,      \* the Uint8Array in use: where in the stream its fill began, its length
    fills,      \* calls of the byte source so far
    requested,  \* bytes asked of the byte source so far
    examined,   \* bytes read from a buffer so far
    rejected,   \* bytes read and rejected so far
    warned,     \* console.warn calls so far
    err,        \* the message of the Error thrown, "" when none
    ret,        \* the string returned
    nano,       \* locals of generateNanoID and of the generator it delegates to:
                \* r is the last masked byte, idx the last index read from the alphabet
    srs,        \* locals of generateSecureRandomString and of its sampling loop
    cx,         \* locals of generateComplexString
    tally,      \* the sampler applied to every byte value in turn, for one alphabet length
    rng,        \* getSecureRandomValues on its own: the platform, the buffer, the outcome
    pair,       \* two invocations of a generator at once: the source, the module's
                \* constants, the locals of each invocation
    calc        \* a call of calculateCollisionProbability or recommendIdSize

\* the state of the functions studied on their own
probes == <<rng, pair, calc>>

vars == <<pc, fn, args, stream, pos, bytes, fills, requested, examined, rejected,
          warned, err, ret, nano, srs, cx, tally, probes>>

\* the outcome of a sampler that rejects the byte
Rejected == -1

NoTally == [len |-> 0, mask |-> 0, byte |-> 0, index |-> Rejected, count |-> <<>>, rejects |-> 0]

NoBytes == [base |-> 0, length |-> 0]

\* the platform the generators run on: every source is there and works
WorkingPlatform ==
    [crypto |-> "works", node |-> TRUE, nodeCrypto |-> "works", selfCrypto |-> "works"]

NoRng ==
    [env |-> WorkingPlatform, buffer |-> <<>>, outcome |-> "", returned |-> "", err |-> ""]

NoPair == [stream |-> <<>>, pos |-> 0, constants |-> <<>>, inv |-> <<>>]

NoCalc ==
    [op |-> "", stage |-> "", size |-> 0, alphabetSize |-> 0, idCount |-> 0,
     ceiling |-> <<>>, result |-> <<>>]

NoProbes ==
    /\ rng = NoRng
    /\ pair = NoPair
    /\ calc = NoCalc

NoNano ==
    [size |-> 0, alphabetStr |-> <<>>, len |-> 0, mask |-> 0, step |-> 0,
     strategy |-> "", i |-> 0, j |-> 0, r |-> -1, idx |-> -1, result |-> <<>>]

NoSrs ==
    [length |-> 0, charset |-> <<>>, charsetLength |-> 0, maxValid |-> 0,
     bufferSize |-> 0, batchSize |-> 0, processLength |-> 0,
     resultIndex |-> 0, i |-> 0, result |-> <<>>]

NoCx ==
    [length |-> 0, options |-> <<>>, charset |-> <<>>, requiredChars |-> <<>>,
     phase |-> "", allChars |-> <<>>, i |-> 0]

Init ==
    /\ pc = "idle"
    /\ fn = ""
    /\ args = [size |-> Missing, alphabet |-> Missing]
    /\ stream = <<0>>
    /\ pos = 0
    /\ bytes = NoBytes
    /\ fills = 0
    /\ requested = 0
    /\ examined = 0
    /\ rejected = 0
    /\ warned = 0
    /\ err = ""
    /\ ret = <<>>
    /\ nano = NoNano
    /\ srs = NoSrs
    /\ cx = NoCx
    /\ NoProbes
    /\ tally = NoTally

(***************************************************************************)
(* The byte source.                                                        *)
(***************************************************************************)
\* buf[k] of a buffer filled from stream s
ByteOf(s, buf, k) == s[((buf.base + k) % Len(s)) + 1]

\* getSecureRandomValues(buffer) / crypto.getRandomValues(buffer) on a buffer
\* of n bytes: the buffer holds the next n bytes of the stream
Fill(s, p, n) ==
    /\ bytes' = [base |-> p, length |-> n]
    /\ pos' = (p + n) % Len(s)
    /\ fills' = fills + 1
    /\ requested' = requested + n

\* throw new Error(message)
Throw(message) ==
    /\ pc' = "error"
    /\ err' = message

(***************************************************************************)
(* getSecureRandomValues on its own, on every platform.                    *)
(***************************************************************************)
NodeCryptoError ==
    "Node.js crypto module not available. Please ensure you have a compatible Node.js version."
NotSupportedError ==
    "Secure random number generation not supported in this environment. Consider using a polyfill."
\* an error raised by a platform source itself, whatever its message
PlatformError == "raised by the platform source"

\* what a source of the platform can be: not there, filling the buffer, raising
SourceStates == {"absent", "works", "throws"}

\* a platform: crypto is the global crypto.getRandomValues, node tells
\* whether process.versions.node is set, nodeCrypto is
\* require("crypto").randomFillSync, selfCrypto is self.crypto.getRandomValues
Platforms ==
    [crypto : SourceStates, node : BOOLEAN, nodeCrypto : SourceStates,
     selfCrypto : SourceStates]

\* a Uint8Array and the source that wrote its bytes, "none" as allocated
Buffer(length) == [length |-> length, filledBy |-> "none"]

Threw(buffer, message) ==
    [outcome |-> "threw", returned |-> "none", buffer |-> buffer, err |-> message]

Returned(buffer, source) ==
    [outcome |-> "returned", returned |-> "buffer",
     buffer |-> [buffer EXCEPT !.filledBy = source], err |-> ""]

\* a getSecureRandomValues that falls back to Math.random when no source is there
getSecureRandomValues_MathRandom(env, buffer) ==
    IF env.crypto # "absent"
    THEN IF env.crypto = "works"
         THEN Returned(buffer, "crypto.getRandomValues")
         ELSE Threw(buffer, PlatformError)
    ELSE IF env.node
    THEN IF env.nodeCrypto = "works"
         THEN Returned(buffer, "randomFillSync")
         ELSE Threw(buffer, NodeCryptoError)
    ELSE IF env.selfCrypto # "absent"
    THEN IF env.selfCrypto = "works"
         THEN Returned(buffer, "self.crypto.getRandomValues")
         ELSE Threw(buffer, PlatformError)
    ELSE Returned(buffer, "Math.random")

\* getSecureRandomValues(buffer): the first source found is used; an error of
\* crypto.getRandomValues propagates, any error in the Node branch (require
\* or randomFillSync) is caught and replaced
getSecureRandomValues(env, buffer) ==
    IF env.crypto # "absent"
    THEN IF env.crypto = "works"
         THEN Returned(buffer, "crypto.getRandomValues")
         ELSE Threw(buffer, PlatformError)
    ELSE IF env.node
    THEN IF env.nodeCrypto = "works"
         THEN Returned(buffer, "randomFillSync")
         ELSE Threw(buffer, NodeCryptoError)
    ELSE IF env.selfCrypto # "absent"
    THEN IF env.selfCrypto = "works"
         THEN Returned(buffer, "self.crypto.getRandomValues")
         ELSE Threw(buffer, PlatformError)
    ELSE Threw(buffer, NotSupportedError)

\* the call wrapped in a try with an empty catch: the generator goes on with
\* the buffer as it was
NanoFill_Swallowed(s, p, n, next) ==
    /\ IF getSecureRandomValues(rng.env, Buffer(n)).outcome = "threw"
       THEN /\ fills' = fills + 1
            /\ UNCHANGED <<bytes, pos, requested>>
       ELSE Fill(s, p, n)
    /\ pc' = next
    /\ err' = err

\* getSecureRandomValues(bytes) in a generator of generateNanoID, on a buffer of
\* n bytes: the buffer is filled and the generator goes on at next, or the
\* error of the source leaves the generator
NanoFill(s, p, n, next) ==
    LET result == getSecureRandomValues(rng.env, Buffer(n))
    IN  IF result.outcome = "threw"
        THEN /\ Throw(result.err)
             /\ fills' = fills + 1
             /\ UNCHANGED <<bytes, pos, requested>>
        ELSE /\ Fill(s, p, n)
             /\ pc' = next
             /\ err' = err

\* crypto.getRandomValues(randomBytes) in the charset engine and in the
\* shuffle: the global crypto is used as it is
CryptoFill(s, p, n, next) ==
    IF rng.env.crypto # "works"
    THEN /\ Throw(PlatformError)
         /\ fills' = fills + 1
         /\ UNCHANGED <<bytes, pos, requested>>
    ELSE /\ Fill(s, p, n)
         /\ pc' = next
         /\ err' = err

\* buffer lengths of the calls
MaxBufferLength == 3

SourceInit ==
    /\ pc = "source"
    /\ fn = ""
    /\ args = [size |-> Missing, alphabet |-> Missing]
    /\ stream = <<0>>
    /\ pos = 0
    /\ bytes = NoBytes
    /\ fills = 0
    /\ requested = 0
    /\ examined = 0
    /\ rejected = 0
    /\ warned = 0
    /\ err = ""
    /\ ret = <<>>
    /\ nano = NoNano
    /\ srs = NoSrs
    /\ cx = NoCx
    /\ tally = NoTally
    /\ pair = NoPair
    /\ calc = NoCalc
    /\ \E env \in Platforms, length \in 0..MaxBufferLength :
           rng = [env |-> env, buffer |-> Buffer(length), outcome |-> "called",
                  returned |-> "none", err |-> ""]

\* the call runs to its return or throw
SourceCall ==
    /\ pc = "source"
    /\ rng.outcome = "called"
    /\ LET result == getSecureRandomValues(rng.env, rng.buffer)
       IN  rng' = [rng EXCEPT !.outcome = result.outcome, !.returned = result.returned,
                              !.buffer = result.buffer, !.err = result.err]
    /\ UNCHANGED <<pair, calc, pc, fn, args, stream, pos, bytes, fills, requested, examined, rejected,
                   warned, err, ret, nano, srs, cx, tally>>

SourceSpec == SourceInit /\ [][SourceCall]_vars

(***************************************************************************)
(* generateNanoID.                                                         *)
(***************************************************************************)
SizeError == "Size must be a positive integer"
AlphabetError == "Alphabet must contain at least 2 characters"

DefaultSize == 21

\* ALPHABET[alphabet] is defined: the value is a string that names an entry of
\* ALPHABET (a Symbol names none)
HasProperty(alphabet) == TypeOf(alphabet) = "string" /\ alphabet.val \in ALPHABET_KEYS

\* typeof alphabet === "string" ? alphabet : ALPHABET[alphabet] || ALPHABET.DEFAULT
ResolveAlphabet(alphabet) ==
    IF TypeOf(alphabet) = "string" THEN alphabet.val
    ELSE IF HasProperty(alphabet) THEN ALPHABET(alphabet.val)
    ELSE ALPHABET_DEFAULT

\* size < 0 || !Number.isInteger(size): zero passes
InvalidSize_AllowsZero(size) == size.num < 0 \/ ~NumberIsInteger(size)

\* size <= 0 || !Number.isInteger(size)
InvalidSize(size) == size.num <= 0 \/ ~NumberIsInteger(size)

\* alphabetStr.length < 2
InvalidAlphabet(alphabetStr) == Len(alphabetStr) < 2

\* const mask = len: the decrement is forgotten
PowerOf2Mask_NoDecrement(len) == len

\* const mask = len - 1 of generatePowerOf2ID
PowerOf2Mask(len) == len - 1

\* the threshold taken on the other side: size < 16
Strategy_Below16(size) == IF size < 16 THEN "append" ELSE "join"

\* size <= 16: string concatenation; otherwise new Array(size) and join
Strategy(size) == IF size <= 16 THEN "append" ELSE "join"

\* an array written at index 0 whatever i is: result[0] = c
Put_ArrayAtZero(strategy, result, i, c) ==
    IF strategy = "append" THEN StrAppend(result, c)
    ELSE [result EXCEPT ![1] = c]

\* result += c, or result[i] = c
Put(strategy, result, i, c) ==
    IF strategy = "append" THEN StrAppend(result, c)
    ELSE [result EXCEPT ![i + 1] = c]

\* return result, or return result.join("")
Finish(strategy, result) == IF strategy = "append" THEN result ELSE Join(result)

\* the locals of generatePowerOf2ID / generateSmallID / generateLargeID on entry
NanoStart(size, alphabetStr, mask, step) ==
    [size |-> size, alphabetStr |-> alphabetStr, len |-> Len(alphabetStr),
     mask |-> mask, step |-> step, strategy |-> Strategy(size),
     i |-> 0, j |-> 0, r |-> -1, idx |-> -1,
     result |-> IF Strategy(size) = "append" THEN <<>> ELSE NewArray(size)]

generateNanoID(sizeArg, alphabetArg, s) ==
    /\ pc = "idle"
    /\ fn' = "generateNanoID"
    /\ args' = [size |-> sizeArg, alphabet |-> alphabetArg]
    /\ stream' = s
    /\ UNCHANGED <<probes, tally, examined, rejected, ret, srs, cx>>
    /\ LET size == IF TypeOf(sizeArg) = "undefined" THEN Num(DefaultSize) ELSE sizeArg
           alphabet == IF TypeOf(alphabetArg) = "undefined" THEN Str(ALPHABET_DEFAULT) ELSE alphabetArg
           alphabetStr == ResolveAlphabet(alphabet)
           len == Len(alphabetStr)
       IN  IF InvalidSize(size)
           THEN /\ Throw(SizeError)
                /\ UNCHANGED <<pos, bytes, fills, requested, warned, nano>>
           ELSE IF InvalidAlphabet(alphabetStr)
           THEN /\ Throw(AlphabetError)
                /\ UNCHANGED <<pos, bytes, fills, requested, warned, nano>>
           ELSE /\ warned' = IF hasAdequateEntropy(IntOf(size), len) THEN warned ELSE warned + 1
                /\ IF isPowerOf2(len)
                   THEN /\ nano' = NanoStart(IntOf(size), alphabetStr, PowerOf2Mask(len), 0)
                        /\ NanoFill(s, 0, IntOf(size), "powerOf2")
                   ELSE LET mask == GeneralMask(len)
                            step == calculateOptimalStep(mask, IntOf(size), len)
                        IN  /\ nano' = NanoStart(IntOf(size), alphabetStr, mask, step)
                            /\ NanoFill(s, 0, step, "general")

\* one iteration of the for loop of generatePowerOf2ID
PowerOf2Step ==
    /\ pc = "powerOf2"
    /\ nano.i < nano.size
    /\ examined < MaxExamined
    /\ LET r == MaskByte(ByteOf(stream, bytes, nano.i), nano.mask)
       IN  nano' = [nano EXCEPT !.r = r, !.idx = r,
                                !.result = Put(nano.strategy, nano.result, nano.i,
                                               CharAt(nano.alphabetStr, r)),
                                !.i = nano.i + 1]
    /\ examined' = examined + 1
    /\ UNCHANGED <<probes, tally, pc, fn, args, stream, pos, bytes, fills, requested, rejected,
                   warned, err, ret, srs, cx>>

\* a refill one byte early: if (j >= bytes.length - 1)
OutOfBytes_OneEarly(j, length) == j >= length - 1

\* if (j >= bytes.length): every byte of the buffer has been read
OutOfBytes(j, length) == j >= length

\* one iteration of the while loop of generateSmallID / generateLargeID
GeneralStep ==
    /\ pc = "general"
    /\ nano.i < nano.size
    /\ examined < MaxExamined
    /\ LET refill == OutOfBytes(nano.j, bytes.length)
           buf == IF refill THEN [base |-> pos, length |-> bytes.length] ELSE bytes
           j == IF refill THEN 0 ELSE nano.j
           r == MaskByte(ByteOf(stream, buf, j), nano.mask)
       IN  /\ IF refill
              THEN NanoFill(stream, pos, bytes.length, "general")
              ELSE UNCHANGED <<bytes, pos, fills, requested, pc, err>>
           /\ IF pc' = "error"
              THEN UNCHANGED <<nano, rejected, examined>>
              ELSE /\ examined' = examined + 1
                   /\ IF Rejects(r, nano.len)
                      THEN /\ nano' = [nano EXCEPT !.r = r, !.j = j + 1]
                           /\ rejected' = rejected + 1
                      ELSE /\ nano' = [nano EXCEPT !.r = r, !.j = j + 1, !.idx = r,
                                                   !.result = Put(nano.strategy, nano.result,
                                                                  nano.i,
                                                                  CharAt(nano.alphabetStr, r)),
                                                   !.i = nano.i + 1]
                           /\ rejected' = rejected
    /\ UNCHANGED <<probes, tally, fn, args, stream, warned, ret, srs, cx>>

\* the loop is over: generatePowerOf2ID / generateSmallID / generateLargeID return
NanoReturn ==
    /\ pc \in {"powerOf2", "general"}
    /\ nano.i >= nano.size
    /\ pc' = "done"
    /\ ret' = Finish(nano.strategy, nano.result)
    /\ UNCHANGED <<probes, tally, fn, args, stream, pos, bytes, fills, requested, examined, rejected,
                   warned, err, nano, srs, cx>>

(***************************************************************************)
(* The charset engine: generateSecureRandomString and its two samplers.    *)
(***************************************************************************)
LengthError == "Length must be a positive integer"
CharsetError == "Charset cannot be empty"

\* charsetLength <= 16 selects rejection sampling
SmallCharsetMax == 16
MinBufferSize == 256
MaxBufferSize == 4096
MinBatchSize == 64
MaxBatchSize == 1024

\* Math.floor(256 / charsetLength) * charsetLength
MaxValid(charsetLength) == (ByteValues \div charsetLength) * charsetLength

\* the test with <= for <
Accepts_Inclusive(byte, maxValid) == byte <= maxValid

\* if (randomBytes[i] < maxValid)
Accepts(byte, maxValid) == byte < maxValid

\* the reduction done with a mask, as generateNanoID does it
ModIndex_Mask(byte, charsetLength) == BitAnd(byte, charsetLength - 1)

\* randomBytes[i] % charsetLength
ModIndex(byte, charsetLength) == byte % charsetLength

\* let bufferSize = Math.max(length * 2, 256)
InitialBufferSize(length) == Max(length * 2, MinBufferSize)

\* if (resultIndex < length / 2) bufferSize = Math.min(bufferSize * 2, 4096)
NextBufferSize(bufferSize, resultIndex, length) ==
    IF 2 * resultIndex < length THEN Min(bufferSize * 2, MaxBufferSize) ELSE bufferSize

\* generateSecureRandomString(length, charset) up to the first loop test of
\* the sampler it selects
SrsEnter(length, charset) ==
    IF length <= 0
    THEN /\ Throw(LengthError)
         /\ srs' = srs
    ELSE IF Len(charset) = 0
    THEN /\ Throw(CharsetError)
         /\ srs' = srs
    ELSE /\ err' = err
         /\ pc' = IF Len(charset) <= SmallCharsetMax THEN "rejection" ELSE "biasReduction"
         /\ srs' = [length |-> length, charset |-> charset, charsetLength |-> Len(charset),
                    maxValid |-> IF Len(charset) <= SmallCharsetMax
                                 THEN MaxValid(Len(charset)) ELSE 0,
                    bufferSize |-> IF Len(charset) <= SmallCharsetMax
                                   THEN InitialBufferSize(length) ELSE 0,
                    batchSize |-> IF Len(charset) <= SmallCharsetMax
                                  THEN 0 ELSE Min(Max(length, MinBatchSize), MaxBatchSize),
                    processLength |-> 0, resultIndex |-> 0, i |-> 0,
                    result |-> NewArray(length)]

\* generateWithRejectionSampling: while (resultIndex < length), a new buffer is filled
RejectionFill ==
    /\ pc = "rejection"
    /\ srs.resultIndex < srs.length
    /\ CryptoFill(stream, pos, srs.bufferSize, "rejectionInner")
    /\ srs' = IF pc' = "error" THEN srs ELSE [srs EXCEPT !.i = 0]
    /\ UNCHANGED <<probes, tally, fn, args, stream, examined, rejected, warned, ret, nano, cx>>

\* one iteration of its for loop
RejectionStep ==
    /\ pc = "rejectionInner"
    /\ srs.i < bytes.length /\ srs.resultIndex < srs.length
    /\ examined < MaxExamined
    /\ LET byte == ByteOf(stream, bytes, srs.i)
       IN  IF Accepts(byte, srs.maxValid)
           THEN /\ srs' = [srs EXCEPT
                              !.result[srs.resultIndex + 1] =
                                  CharAt(srs.charset, ModIndex(byte, srs.charsetLength)),
                              !.resultIndex = srs.resultIndex + 1,
                              !.i = srs.i + 1]
                /\ rejected' = rejected
           ELSE /\ srs' = [srs EXCEPT !.i = srs.i + 1]
                /\ rejected' = rejected + 1
    /\ examined' = examined + 1
    /\ UNCHANGED <<probes, tally, pc, fn, args, stream, pos, bytes, fills, requested, warned, err, ret,
                   nano, cx>>

\* the for loop is over: if (resultIndex < length / 2) bufferSize = ...
RejectionGrow ==
    /\ pc = "rejectionInner"
    /\ ~(srs.i < bytes.length /\ srs.resultIndex < srs.length)
    /\ srs' = [srs EXCEPT !.bufferSize =
                  NextBufferSize(srs.bufferSize, srs.resultIndex, srs.length)]
    /\ pc' = "rejection"
    /\ UNCHANGED <<probes, tally, fn, args, stream, pos, bytes, fills, requested, examined, rejected,
                   warned, err, ret, nano, cx>>

\* generateWithBiasReduction: while (resultIndex < length), the buffer is refilled
BiasFill ==
    /\ pc = "biasReduction"
    /\ srs.resultIndex < srs.length
    /\ CryptoFill(stream, pos, srs.batchSize, "biasInner")
    /\ srs' = IF pc' = "error" THEN srs
              ELSE [srs EXCEPT !.i = 0,
                               !.processLength = Min(srs.length - srs.resultIndex,
                                                     srs.batchSize)]
    /\ UNCHANGED <<probes, tally, fn, args, stream, examined, rejected, warned, ret, nano, cx>>

\* one iteration of its for loop
BiasStep ==
    /\ pc = "biasInner"
    /\ srs.i < srs.processLength
    /\ srs' = [srs EXCEPT
                  !.result[srs.resultIndex + srs.i + 1] =
                      CharAt(srs.charset,
                             ModIndex(ByteOf(stream, bytes, srs.i), srs.charsetLength)),
                  !.i = srs.i + 1]
    /\ examined' = examined + 1
    /\ UNCHANGED <<probes, tally, pc, fn, args, stream, pos, bytes, fills, requested, rejected, warned,
                   err, ret, nano, cx>>

\* the for loop is over: resultIndex += processLength
BiasAdvance ==
    /\ pc = "biasInner"
    /\ srs.i >= srs.processLength
    /\ srs' = [srs EXCEPT !.resultIndex = srs.resultIndex + srs.processLength]
    /\ pc' = "biasReduction"
    /\ UNCHANGED <<probes, tally, fn, args, stream, pos, bytes, fills, requested, examined, rejected,
                   warned, err, ret, nano, cx>>

\* the classes of generateComplexString in the order it treats them, and what
\* follows the last
NextPhase(phase) ==
    CASE phase = "lowercase" -> "uppercase"
      [] phase = "uppercase" -> "numbers"
      [] phase = "numbers" -> "symbols"
      [] phase = "symbols" -> "remaining"
      [] phase = "remaining" -> "combine"

\* the while loop of a sampler is over: return result.join(""), to the caller
\* of the exported function or into generateComplexString
SrsReturn ==
    /\ pc \in {"rejection", "biasReduction"}
    /\ srs.resultIndex >= srs.length
    /\ IF fn = "generateComplexString"
       THEN /\ pc' = "complex"
            /\ cx' = IF cx.phase = "remaining"
                     THEN [cx EXCEPT !.allChars = cx.requiredChars \o Join(srs.result),
                                     !.phase = NextPhase(cx.phase)]
                     ELSE [cx EXCEPT !.requiredChars = cx.requiredChars \o Join(srs.result),
                                     !.phase = NextPhase(cx.phase)]
            /\ ret' = ret
       ELSE /\ pc' = "done"
            /\ ret' = Join(srs.result)
            /\ cx' = cx
    /\ UNCHANGED <<probes, tally, fn, args, stream, pos, bytes, fills, requested, examined, rejected,
                   warned, err, nano, srs>>

(***************************************************************************)
(* The exported generators of the charset engine.                          *)
(***************************************************************************)
CustomCharsetError == "Custom charset cannot be empty"
DefaultHexLength == 32

generateHexString(lengthArg, s) ==
    /\ pc = "idle"
    /\ fn' = "generateHexString"
    /\ args' = [length |-> lengthArg]
    /\ stream' = s
    /\ SrsEnter(IF TypeOf(lengthArg) = "undefined" THEN DefaultHexLength ELSE IntOf(lengthArg),
                HEX_CHARS)
    /\ UNCHANGED <<probes, tally, pos, bytes, fills, requested, examined, rejected, warned, ret, nano, cx>>

generateCustomString(lengthArg, customCharset, s) ==
    /\ pc = "idle"
    /\ fn' = "generateCustomString"
    /\ args' = [length |-> lengthArg, customCharset |-> customCharset]
    /\ stream' = s
    /\ IF Len(customCharset.val) = 0
       THEN /\ Throw(CustomCharsetError)
            /\ srs' = srs
       ELSE SrsEnter(IntOf(lengthArg), Dedupe(customCharset.val))
    /\ UNCHANGED <<probes, tally, pos, bytes, fills, requested, examined, rejected, warned, ret, nano, cx>>

DefaultSaltLength == 16
SaltAdvisoryBelow == 8
DefaultTokenLength == 32
TokenAdvisoryBelow == 16
DefaultNumericLength == 6

\* generateRandomSalt(length = 16): an advisory below 8, then the engine
generateRandomSalt(lengthArg, s) ==
    /\ pc = "idle"
    /\ fn' = "generateRandomSalt"
    /\ args' = [length |-> lengthArg]
    /\ stream' = s
    /\ LET length == IF TypeOf(lengthArg) = "undefined"
                     THEN DefaultSaltLength ELSE IntOf(lengthArg)
       IN  /\ warned' = IF length < SaltAdvisoryBelow THEN warned + 1 ELSE warned
           /\ SrsEnter(length, ALPHANUMERIC_CHARS)
    /\ UNCHANGED <<probes, tally, pos, bytes, fills, requested, examined, rejected, ret, nano, cx>>

\* a generateToken that raises short lengths to 16 instead of only warning
generateToken_Clamped(lengthArg, s) ==
    /\ pc = "idle"
    /\ fn' = "generateToken"
    /\ args' = [length |-> lengthArg]
    /\ stream' = s
    /\ LET length == IF TypeOf(lengthArg) = "undefined"
                     THEN DefaultTokenLength ELSE IntOf(lengthArg)
       IN  /\ warned' = IF length < TokenAdvisoryBelow THEN warned + 1 ELSE warned
           /\ SrsEnter(Max(length, TokenAdvisoryBelow), ALPHANUMERIC_CHARS)
    /\ UNCHANGED <<probes, tally, pos, bytes, fills, requested, examined, rejected, ret, nano, cx>>

\* generateToken(length = 32): an advisory below 16, then the engine
generateToken(lengthArg, s) ==
    /\ pc = "idle"
    /\ fn' = "generateToken"
    /\ args' = [length |-> lengthArg]
    /\ stream' = s
    /\ LET length == IF TypeOf(lengthArg) = "undefined"
                     THEN DefaultTokenLength ELSE IntOf(lengthArg)
       IN  /\ warned' = IF length < TokenAdvisoryBelow THEN warned + 1 ELSE warned
           /\ SrsEnter(length, ALPHANUMERIC_CHARS)
    /\ UNCHANGED <<probes, tally, pos, bytes, fills, requested, examined, rejected, ret, nano, cx>>

\* generateNumericString(length = 6)
generateNumericString(lengthArg, s) ==
    /\ pc = "idle"
    /\ fn' = "generateNumericString"
    /\ args' = [length |-> lengthArg]
    /\ stream' = s
    /\ SrsEnter(IF TypeOf(lengthArg) = "undefined"
                THEN DefaultNumericLength ELSE IntOf(lengthArg),
                NUMERIC_CHARS)
    /\ UNCHANGED <<probes, tally, pos, bytes, fills, requested, examined, rejected, warned, ret, nano, cx>>

(***************************************************************************)
(* generateComplexString.                                                  *)
(***************************************************************************)
ComplexLengthError == "Length must be at least 4 for complex strings"
NoClassError == "At least one character type must be enabled"
MinComplexLength == 4

\* options after destructuring: lowercase, uppercase, numbers (booleans) and
\* symbols (a string, empty when no symbol is wanted)
Options(lowercase, uppercase, numbers, symbols) ==
    [lowercase |-> lowercase, uppercase |-> uppercase, numbers |-> numbers,
     symbols |-> symbols]

\* the test with the negation of symbols left out
NoClass_SymbolsRequired(options) ==
    ~options.lowercase /\ ~options.uppercase /\ ~options.numbers /\ options.symbols # <<>>

\* !lowercase && !uppercase && !numbers && !symbols
NoClass(options) ==
    ~options.lowercase /\ ~options.uppercase /\ ~options.numbers /\ options.symbols = <<>>

\* the test of the if statement of a class, and the characters of the class
Enabled(options, phase) ==
    CASE phase = "lowercase" -> options.lowercase
      [] phase = "uppercase" -> options.uppercase
      [] phase = "numbers" -> options.numbers
      [] phase = "symbols" -> options.symbols # <<>>

ClassChars(options, phase) ==
    CASE phase = "lowercase" -> LOWERCASE_CHARS
      [] phase = "uppercase" -> UPPERCASE_CHARS
      [] phase = "numbers" -> NUMERIC_CHARS
      [] phase = "symbols" -> options.symbols

\* const remainingLength = length - requiredChars.length
RemainingLength(length, requiredChars) == length - Len(requiredChars)

\* the modulus one too large: % (i + 2)
ShuffleIndex_PastI(byte, i) == byte % (i + 2)

\* const j = shuffleBytes[i - 1] % (i + 1)
ShuffleIndex(byte, i) == byte % (i + 1)

\* an exchange that loses allChars[i]: allChars[i] = allChars[j] alone
Swap_Overwrite(allChars, i, j) ==
    [allChars EXCEPT ![i + 1] = allChars[j + 1]]

\* [allChars[i], allChars[j]] = [allChars[j], allChars[i]]
Swap(allChars, i, j) ==
    [allChars EXCEPT ![i + 1] = allChars[j + 1], ![j + 1] = allChars[i + 1]]

generateComplexString(lengthArg, options, s) ==
    /\ pc = "idle"
    /\ fn' = "generateComplexString"
    /\ args' = [length |-> lengthArg, options |-> options]
    /\ stream' = s
    /\ IF IntOf(lengthArg) < MinComplexLength
       THEN /\ Throw(ComplexLengthError)
            /\ cx' = cx
       ELSE IF NoClass(options)
       THEN /\ Throw(NoClassError)
            /\ cx' = cx
       ELSE /\ pc' = "complex"
            /\ err' = err
            /\ cx' = [length |-> IntOf(lengthArg), options |-> options, charset |-> <<>>,
                      requiredChars |-> <<>>, phase |-> "lowercase", allChars |-> <<>>,
                      i |-> 0]
    /\ UNCHANGED <<probes, tally, pos, bytes, fills, requested, examined, rejected, warned, ret, nano, srs>>

\* if (<class>) { charset += <CLASS>_CHARS; requiredChars.push(generateSecureRandomString(1, ...)) }
ComplexClass ==
    /\ pc = "complex"
    /\ cx.phase \in {"lowercase", "uppercase", "numbers", "symbols"}
    /\ IF Enabled(cx.options, cx.phase)
       THEN /\ cx' = [cx EXCEPT !.charset = cx.charset \o ClassChars(cx.options, cx.phase)]
            /\ SrsEnter(1, ClassChars(cx.options, cx.phase))
       ELSE /\ cx' = [cx EXCEPT !.phase = NextPhase(cx.phase)]
            /\ UNCHANGED <<pc, err, srs>>
    /\ UNCHANGED <<probes, tally, fn, args, stream, pos, bytes, fills, requested, examined, rejected,
                   warned, ret, nano>>

\* const remainingChars = generateSecureRandomString(remainingLength, charset)
ComplexRemaining ==
    /\ pc = "complex"
    /\ cx.phase = "remaining"
    /\ SrsEnter(RemainingLength(cx.length, cx.requiredChars), cx.charset)
    /\ UNCHANGED <<probes, tally, fn, args, stream, pos, bytes, fills, requested, examined, rejected,
                   warned, ret, nano, cx>>

\* allChars is combined; shuffleBytes = new Uint8Array(allChars.length - 1) is filled
ShuffleStart ==
    /\ pc = "complex"
    /\ cx.phase = "combine"
    /\ CryptoFill(stream, pos, Len(cx.allChars) - 1, "shuffle")
    /\ cx' = IF pc' = "error" THEN cx
             ELSE [cx EXCEPT !.phase = "shuffle", !.i = Len(cx.allChars) - 1]
    /\ UNCHANGED <<probes, tally, fn, args, stream, examined, rejected, warned, ret, nano, srs>>

\* one iteration of the Fisher-Yates loop
ShuffleStep ==
    /\ pc = "shuffle"
    /\ cx.i > 0
    /\ examined < MaxExamined
    /\ cx' = [cx EXCEPT
                 !.allChars = Swap(cx.allChars, cx.i,
                                   ShuffleIndex(ByteOf(stream, bytes, cx.i - 1), cx.i)),
                 !.i = cx.i - 1]
    /\ examined' = examined + 1
    /\ UNCHANGED <<probes, tally, pc, fn, args, stream, pos, bytes, fills, requested, rejected, warned,
                   err, ret, nano, srs>>

\* return allChars.join("")
ComplexReturn ==
    /\ pc = "shuffle"
    /\ cx.i <= 0
    /\ pc' = "done"
    /\ ret' = Join(cx.allChars)
    /\ UNCHANGED <<probes, tally, fn, args, stream, pos, bytes, fills, requested, examined, rejected,
                   warned, err, nano, srs, cx>>

(***************************************************************************)
(* The calls the model makes.                                              *)
(***************************************************************************)
\* sizes: invalid ones, the smallest, the last append size and the first
\* join size, the default (missing) and the size of a card id
NanoSizes ==
    {Missing, Num(-5), Num(0), Half(3), Num(1), Num(2), Num(3), Num(15), Num(16),
     Num(17), Num(24)}

\* alphabets: the predefined ones by value and by key, short literals with and
\* without a repeated character, and values that are no string
NanoAlphabets ==
    {Missing,
     Str(ALPHABET_DEFAULT), Str(ALPHABET_NO_CONFUSION), Str(ALPHABET_HEX),
     Str(ALPHABET_NUMERIC),
     Str(<<"H", "E", "X">>), Str(<<"N", "U", "M", "E", "R", "I", "C">>),
     Sym(<<"H", "E", "X">>),
     Str(<<>>), Str(<<"a">>), Str(<<"a", "a">>), Str(<<"a", "a", "b">>),
     Str(<<"a", "b">>)}

HexLengths == {Missing, Num(0), Num(1), Num(2), Num(3)}

CustomLengths == {Num(0), Num(1), Num(2), Num(3)}

CustomCharsets ==
    {Str(<<>>), Str(<<"a">>), Str(<<"a", "a">>), Str(<<"a", "a", "b">>), Str(<<"a", "b">>),
     Str(NUMERIC_CHARS), Str(LOWERCASE_CHARS)}

\* lengths on both sides of the advisory thresholds, the default, and 0
SaltLengths == {Missing, Num(0), Num(1), Num(7), Num(8)}

TokenLengths == {Missing, Num(0), Num(1), Num(15), Num(16)}

NumericLengths == {Missing, Num(0), Num(1), Num(3)}

ComplexLengths == {Num(3), Num(4), Num(5)}

ComplexOptions ==
    {Options(l, u, n, y) : l \in BOOLEAN, u \in BOOLEAN, n \in BOOLEAN,
                           y \in {<<>>, <<"!", "?">>}}

\* a call of an exported function, when none is running
Call ==
    /\ pc = "idle"
    /\ \/ \E sizeArg \in NanoSizes, alphabetArg \in NanoAlphabets, s \in Streams :
              generateNanoID(sizeArg, alphabetArg, s)
       \/ \E lengthArg \in HexLengths, s \in Streams :
              generateHexString(lengthArg, s)
       \/ \E lengthArg \in SaltLengths, s \in Streams :
              generateRandomSalt(lengthArg, s)
       \/ \E lengthArg \in TokenLengths, s \in Streams :
              generateToken(lengthArg, s)
       \/ \E lengthArg \in NumericLengths, s \in Streams :
              generateNumericString(lengthArg, s)
       \/ \E lengthArg \in CustomLengths, customCharset \in CustomCharsets, s \in Streams :
              generateCustomString(lengthArg, customCharset, s)
       \/ \E lengthArg \in ComplexLengths, options \in ComplexOptions, s \in Streams :
              generateComplexString(lengthArg, options, s)

Next ==
    \/ Call
    \/ PowerOf2Step
    \/ GeneralStep
    \/ NanoReturn
    \/ RejectionFill
    \/ RejectionStep
    \/ RejectionGrow
    \/ BiasFill
    \/ BiasStep
    \/ BiasAdvance
    \/ SrsReturn
    \/ ComplexClass
    \/ ComplexRemaining
    \/ ShuffleStart
    \/ ShuffleStep
    \/ ComplexReturn

Spec == Init /\ [][Next]_vars

(***************************************************************************)
(* Calls that run to their end: the steps of a running call are taken as   *)
(* long as one is possible (the code is synchronous and the byte source    *)
(* delivers), for calls short enough that MaxExamined bytes suffice on     *)
(* every stream that holds an accepted byte, and for one token longer than *)
(* the largest batch.                                                      *)
(***************************************************************************)
\* a token of more than MaxBatchSize characters
LongTokenLength == MaxBatchSize + 1

\* the streams of one byte
LongStreams == {s \in Streams : Len(s) = 1}

LiveCall ==
    /\ pc = "idle"
    /\ \/ \E sizeArg \in {Num(3), Num(17)},
             alphabetArg \in {Str(ALPHABET_HEX), Str(ALPHABET_NUMERIC),
                              Str(ALPHABET_NO_CONFUSION)},
             s \in Streams :
              generateNanoID(sizeArg, alphabetArg, s)
       \/ \E s \in Streams : generateHexString(Num(3), s)
       \/ \E s \in Streams : generateRandomSalt(Num(8), s)
       \/ \E s \in Streams : generateToken(Num(16), s)
       \/ \E s \in LongStreams : generateToken(Num(LongTokenLength), s)
       \/ \E s \in Streams : generateNumericString(Missing, s)
       \/ \E options \in {Options(TRUE, TRUE, TRUE, <<>>),
                          Options(FALSE, FALSE, TRUE, <<"!", "?">>)},
             s \in Streams :
              generateComplexString(Num(5), options, s)

\* a step of the running call
Steps ==
    \/ PowerOf2Step
    \/ GeneralStep
    \/ NanoReturn
    \/ RejectionFill
    \/ RejectionStep
    \/ RejectionGrow
    \/ BiasFill
    \/ BiasStep
    \/ BiasAdvance
    \/ SrsReturn
    \/ ComplexClass
    \/ ComplexRemaining
    \/ ShuffleStart
    \/ ShuffleStep
    \/ ComplexReturn

LiveNext == LiveCall \/ Steps

LiveSpec == Init /\ [][LiveNext]_vars /\ WF_vars(Steps)

(***************************************************************************)
(* Calls on a platform whose byte source fails: before a call, or between  *)
(* two fills of a running call.                                            *)
(***************************************************************************)
\* crypto.getRandomValues raises when called (the Node branch is not reached)
RaisingPlatform == [WorkingPlatform EXCEPT !.crypto = "throws"]

\* no source is there
BarePlatform ==
    [crypto |-> "absent", node |-> FALSE, nodeCrypto |-> "absent", selfCrypto |-> "absent"]

\* the source starts to raise; a platform without any source is one the call
\* was started on
SourceBreaks ==
    /\ rng.env = WorkingPlatform
    /\ pc \notin {"done", "error"}
    /\ \E env \in {RaisingPlatform} \cup (IF pc = "idle" THEN {BarePlatform} ELSE {}) :
           rng' = [rng EXCEPT !.env = env]
    /\ UNCHANGED <<pair, calc, pc, fn, args, stream, pos, bytes, fills, requested, examined,
                   rejected, warned, err, ret, nano, srs, cx, tally>>

RaiseNext == LiveCall \/ Steps \/ SourceBreaks

RaiseSpec == Init /\ [][RaiseNext]_vars

(***************************************************************************)
(* The sampler of generateNanoID, applied to every byte value in turn for  *)
(* one alphabet length: how many byte values reach each index.             *)
(***************************************************************************)
\* the mask generateNanoID samples with: line 187 against lines 191, 208
NanoMask(len) == IF isPowerOf2(len) THEN PowerOf2Mask(len) ELSE GeneralMask(len)

\* what the loop body does with one byte: the index read from the alphabet,
\* or Rejected (the power-of-two loop has no rejection test)
NanoSample(byte, len) ==
    LET r == MaskByte(byte, NanoMask(len))
    IN  IF ~isPowerOf2(len) /\ Rejects(r, len) THEN Rejected ELSE r

TallyInit ==
    /\ pc = "tally"
    /\ fn = ""
    /\ args = [size |-> Missing, alphabet |-> Missing]
    /\ stream = <<0>>
    /\ pos = 0
    /\ bytes = NoBytes
    /\ fills = 0
    /\ requested = 0
    /\ examined = 0
    /\ rejected = 0
    /\ warned = 0
    /\ err = ""
    /\ ret = <<>>
    /\ nano = NoNano
    /\ srs = NoSrs
    /\ cx = NoCx
    /\ NoProbes
    /\ \E len \in 2..ByteValues :
           tally = [len |-> len, mask |-> NanoMask(len), byte |-> 0, index |-> Rejected,
                    count |-> [k \in 1..len |-> 0], rejects |-> 0]

\* the next byte value goes through the sampler; count[k + 1] counts index k
TallyByte ==
    /\ pc \in {"tally", "wide"}
    /\ tally.byte < ByteValues
    /\ LET index == NanoSample(tally.byte, tally.len)
       IN  tally' = [tally EXCEPT
                        !.byte = tally.byte + 1,
                        !.index = index,
                        !.count = IF index \in 0..(tally.len - 1)
                                  THEN [tally.count EXCEPT ![index + 1] = @ + 1]
                                  ELSE tally.count,
                        !.rejects = IF index = Rejected THEN @ + 1 ELSE @]
    /\ UNCHANGED <<probes, pc, fn, args, stream, pos, bytes, fills, requested, examined,
                   rejected, warned, err, ret, nano, srs, cx>>

TallySpec == TallyInit /\ [][TallyByte]_vars

\* alphabets of more than 256 symbols, which lines 169-171 let through
WideLengths == {257, 300, 511, 512, 513, 1024}

\* the same tally for one of them
WideInit ==
    /\ pc = "wide"
    /\ fn = ""
    /\ args = [size |-> Missing, alphabet |-> Missing]
    /\ stream = <<0>>
    /\ pos = 0
    /\ bytes = NoBytes
    /\ fills = 0
    /\ requested = 0
    /\ examined = 0
    /\ rejected = 0
    /\ warned = 0
    /\ err = ""
    /\ ret = <<>>
    /\ nano = NoNano
    /\ srs = NoSrs
    /\ cx = NoCx
    /\ NoProbes
    /\ \E len \in WideLengths :
           tally = [len |-> len, mask |-> NanoMask(len), byte |-> 0, index |-> Rejected,
                    count |-> [k \in 1..len |-> 0], rejects |-> 0]

WideSpec == WideInit /\ [][TallyByte]_vars

(***************************************************************************)
(* The mask generateNanoID derives, for alphabet lengths up to the longest *)
(* string.  The state holds mask + 1: the shift of line 191 as the 32-bit  *)
(* integer it is, before 1 is subtracted from it as a number.              *)
(***************************************************************************)
\* the longest string of the platform (JavaScriptCore: 2^31 - 1 characters)
MaxStringLength == 2147483647

\* lengths: the small ones, and those around 2^16 and around 2^30
MaskLengths ==
    (2..300) \cup {2 ^ 16 - 1, 2 ^ 16, 2 ^ 16 + 1, 2 ^ 29 - 24, 2 ^ 30 - 1, 2 ^ 30,
                   2 ^ 30 + 1, MaxStringLength}

MaskInit ==
    /\ pc = "mask"
    /\ fn = ""
    /\ args = [size |-> Missing, alphabet |-> Missing]
    /\ stream = <<0>>
    /\ pos = 0
    /\ bytes = NoBytes
    /\ fills = 0
    /\ requested = 0
    /\ examined = 0
    /\ rejected = 0
    /\ warned = 0
    /\ err = ""
    /\ ret = <<>>
    /\ nano = NoNano
    /\ srs = NoSrs
    /\ cx = NoCx
    /\ NoProbes
    /\ \E len \in MaskLengths : tally = [len |-> len, path |-> "", maskPlus1 |-> 0]

\* generateNanoID, lines 187 to 191: the path and the mask of an alphabet of
\* tally.len symbols
MaskDerive ==
    /\ pc = "mask"
    /\ pc' = "masked"
    /\ tally' = IF isPowerOf2(tally.len)
                THEN [tally EXCEPT !.path = "powerOf2",
                                   !.maskPlus1 = PowerOf2Mask(tally.len) + 1]
                ELSE [tally EXCEPT !.path = "general", !.maskPlus1 = MaskShift(tally.len)]
    /\ UNCHANGED <<probes, fn, args, stream, pos, bytes, fills, requested, examined,
                   rejected, warned, err, ret, nano, srs, cx>>

MaskSpec == MaskInit /\ [][MaskDerive]_vars

(***************************************************************************)
(* The samplers of the charset engine, applied to every byte value in turn *)
(* for one charset length.                                                 *)
(***************************************************************************)
\* what the loop body of the sampler generateSecureRandomString selects does
\* with one byte: the index read from the charset, or Rejected
CharsetSample(byte, charsetLength) ==
    IF charsetLength <= SmallCharsetMax
    THEN IF Accepts(byte, MaxValid(charsetLength))
         THEN ModIndex(byte, charsetLength)
         ELSE Rejected
    ELSE ModIndex(byte, charsetLength)

CharsetTallyInit ==
    /\ pc = "charsetTally"
    /\ fn = ""
    /\ args = [size |-> Missing, alphabet |-> Missing]
    /\ stream = <<0>>
    /\ pos = 0
    /\ bytes = NoBytes
    /\ fills = 0
    /\ requested = 0
    /\ examined = 0
    /\ rejected = 0
    /\ warned = 0
    /\ err = ""
    /\ ret = <<>>
    /\ nano = NoNano
    /\ srs = NoSrs
    /\ cx = NoCx
    /\ NoProbes
    /\ \E len \in 1..ByteValues :
           tally = [len |-> len, mask |-> 0, byte |-> 0, index |-> Rejected,
                    count |-> [k \in 1..len |-> 0], rejects |-> 0]

\* the next byte value goes through the sampler; count[k + 1] counts index k
CharsetTallyByte ==
    /\ pc = "charsetTally"
    /\ tally.byte < ByteValues
    /\ LET index == CharsetSample(tally.byte, tally.len)
       IN  tally' = [tally EXCEPT
                        !.byte = tally.byte + 1,
                        !.index = index,
                        !.count = IF index \in 0..(tally.len - 1)
                                  THEN [tally.count EXCEPT ![index + 1] = @ + 1]
                                  ELSE tally.count,
                        !.rejects = IF index = Rejected THEN @ + 1 ELSE @]
    /\ UNCHANGED <<probes, pc, fn, args, stream, pos, bytes, fills, requested, examined,
                   rejected, warned, err, ret, nano, srs, cx>>

(***************************************************************************)
(* The buffers generateWithRejectionSampling requests, buffer by buffer,   *)
(* for lengths up to thousands of characters.  The for loop over one       *)
(* buffer is taken as a whole: it accepts some number of bytes, at most    *)
(* the buffer size and at most what is left to produce, and every byte     *)
(* when maxValid is 256.                                                   *)
(***************************************************************************)
MaxRounds == 4

BufferLengths == {1, 64, 128, 129, 1000, 2048, 2049, 5000}

\* charsets of 10 and of 16 characters: maxValid 250 and 256
BufferCharsetLengths == {10, 16}

\* how many bytes of a buffer the for loop may accept, room being the most
AcceptedCounts(room, maxValid) ==
    IF maxValid = ByteValues THEN {room}
    ELSE {0, 1, room \div 4, room \div 2, room} \cap 0..room

BufferInit ==
    /\ pc = "buffer"
    /\ fn = ""
    /\ args = [size |-> Missing, alphabet |-> Missing]
    /\ stream = <<0>>
    /\ pos = 0
    /\ bytes = NoBytes
    /\ fills = 0
    /\ requested = 0
    /\ examined = 0
    /\ rejected = 0
    /\ warned = 0
    /\ err = ""
    /\ ret = <<>>
    /\ nano = NoNano
    /\ srs = NoSrs
    /\ cx = NoCx
    /\ NoProbes
    /\ \E length \in BufferLengths, charsetLength \in BufferCharsetLengths :
           tally = [length |-> length, maxValid |-> MaxValid(charsetLength),
                    bufferSize |-> InitialBufferSize(length), resultIndex |-> 0,
                    previous |-> 0, rounds |-> 0]

\* one turn of the while loop: a buffer of bufferSize bytes is requested and
\* consumed, then bufferSize is set for the next turn
BufferRound ==
    /\ pc = "buffer"
    /\ tally.resultIndex < tally.length
    /\ tally.rounds < MaxRounds
    /\ \E accepted \in AcceptedCounts(Min(tally.bufferSize, tally.length - tally.resultIndex),
                                      tally.maxValid) :
           tally' = [tally EXCEPT
                        !.previous = tally.bufferSize,
                        !.resultIndex = tally.resultIndex + accepted,
                        !.bufferSize = NextBufferSize(tally.bufferSize,
                                                      tally.resultIndex + accepted,
                                                      tally.length),
                        !.rounds = tally.rounds + 1]
    /\ UNCHANGED <<probes, pc, fn, args, stream, pos, bytes, fills, requested, examined,
                   rejected, warned, err, ret, nano, srs, cx>>

BufferSpec == BufferInit /\ [][BufferRound]_vars

\* the charset engine at work in calls, and its samplers byte value by byte value
EngineInit == Init \/ CharsetTallyInit

EngineNext == Next \/ CharsetTallyByte

EngineSpec == EngineInit /\ [][EngineNext]_vars

(***************************************************************************)
(* Two invocations of a generator at once: generateSmallID and             *)
(* generateWithBiasReduction, their loop iterations interleaved.           *)
(***************************************************************************)
\* loop iterations an invocation may make
MaxPairExamined == 8

\* generateSmallID(size, alphabet, mask, step), as generateNanoID calls it
SmallCall(size, alphabet) ==
    [generator |-> "generateSmallID", size |-> size, chars |-> alphabet,
     mask |-> GeneralMask(Len(alphabet)),
     step |-> calculateOptimalStep(GeneralMask(Len(alphabet)), size, Len(alphabet))]

\* generateWithBiasReduction(length, charset)
BiasCall(length, charset) ==
    [generator |-> "generateWithBiasReduction", size |-> length, chars |-> charset,
     mask |-> 0, step |-> Min(Max(length, MinBatchSize), MaxBatchSize)]

PairCalls ==
    {SmallCall(3, ALPHABET_NUMERIC), SmallCall(3, ALPHABET_NO_CONFUSION),
     BiasCall(2, ALPHANUMERIC_CHARS)}

\* the module-level constants the generators read
ModuleConstants ==
    [ALPHABET |-> [DEFAULT |-> ALPHABET_DEFAULT, NO_CONFUSION |-> ALPHABET_NO_CONFUSION,
                   HEX |-> ALPHABET_HEX, NUMERIC |-> ALPHABET_NUMERIC],
     ALPHANUMERIC_CHARS |-> ALPHANUMERIC_CHARS]

\* the next n bytes the source delivers from position p of pattern s
Take(s, p, n) == [k \in 1..n |-> s[((p + k - 1) % Len(s)) + 1]]

\* the locals of an invocation on entry; delivered collects the bytes the
\* source wrote into its buffer, steps counts its loop iterations
Called(call) ==
    [call |-> call, pc |-> "called", buf |-> <<>>, i |-> 0, j |-> 0,
     resultIndex |-> 0, processLength |-> 0, result |-> <<>>, ret |-> <<>>,
     delivered |-> <<>>, steps |-> 0]

\* locals where the read position is a variable of the module, not of the call
Stored_SharedPosition(inv, k, frame) ==
    [x \in DOMAIN inv |-> IF x = k THEN frame ELSE [inv[x] EXCEPT !.j = frame.j]]

\* let / const inside the function body: an invocation writes its own locals
Stored(inv, k, frame) == [inv EXCEPT ![k] = frame]

\* invocation k goes on with locals frame, the source being at position p
Goes(k, frame, p) == [pair EXCEPT !.inv = Stored(pair.inv, k, frame), !.pos = p]

\* the next step of an invocation of generateSmallID
SmallStep(k) ==
    LET f == pair.inv[k]
        c == f.call
        len == Len(c.chars)
        refill == f.j >= Len(f.buf)
        buf == IF f.pc = "called" \/ refill THEN Take(pair.stream, pair.pos, c.step) ELSE f.buf
        p == IF f.pc = "called" \/ refill THEN (pair.pos + c.step) % Len(pair.stream)
             ELSE pair.pos
        j == IF refill THEN 0 ELSE f.j
        r == MaskByte(buf[j + 1], c.mask)
    IN  IF f.pc = "called"
        THEN Goes(k, [f EXCEPT !.pc = "loop", !.buf = buf, !.delivered = buf], p)
        ELSE IF f.i >= c.size
        THEN Goes(k, [f EXCEPT !.pc = "done", !.ret = f.result], pair.pos)
        ELSE Goes(k, [f EXCEPT !.buf = buf,
                               !.delivered = IF refill THEN f.delivered \o buf ELSE f.delivered,
                               !.j = j + 1,
                               !.result = IF Rejects(r, len) THEN f.result
                                          ELSE StrAppend(f.result, CharAt(c.chars, r)),
                               !.i = IF Rejects(r, len) THEN f.i ELSE f.i + 1,
                               !.steps = f.steps + 1], p)

\* the next step of an invocation of generateWithBiasReduction
BiasStepOf(k) ==
    LET f == pair.inv[k]
        c == f.call
        buf == Take(pair.stream, pair.pos, c.step)
    IN  IF f.pc = "called"
        THEN Goes(k, [f EXCEPT !.pc = "loop", !.result = NewArray(c.size)], pair.pos)
        ELSE IF f.pc = "loop" /\ f.resultIndex >= c.size
        THEN Goes(k, [f EXCEPT !.pc = "done", !.ret = Join(f.result)], pair.pos)
        ELSE IF f.pc = "loop"
        THEN Goes(k, [f EXCEPT !.pc = "inner", !.buf = buf,
                               !.delivered = f.delivered \o buf,
                               !.processLength = Min(c.size - f.resultIndex, c.step),
                               !.j = 0],
                  (pair.pos + c.step) % Len(pair.stream))
        ELSE IF f.j >= f.processLength
        THEN Goes(k, [f EXCEPT !.pc = "loop",
                               !.resultIndex = f.resultIndex + f.processLength], pair.pos)
        ELSE Goes(k, [f EXCEPT !.result[f.resultIndex + f.j + 1] =
                                   CharAt(c.chars, ModIndex(f.buf[f.j + 1], Len(c.chars))),
                               !.j = f.j + 1,
                               !.steps = f.steps + 1], pair.pos)

PairInit ==
    /\ pc = "pair"
    /\ fn = ""
    /\ args = [size |-> Missing, alphabet |-> Missing]
    /\ stream = <<0>>
    /\ pos = 0
    /\ bytes = NoBytes
    /\ fills = 0
    /\ requested = 0
    /\ examined = 0
    /\ rejected = 0
    /\ warned = 0
    /\ err = ""
    /\ ret = <<>>
    /\ nano = NoNano
    /\ srs = NoSrs
    /\ cx = NoCx
    /\ tally = NoTally
    /\ rng = NoRng
    /\ calc = NoCalc
    /\ \E s \in Streams, first \in PairCalls, second \in PairCalls :
           pair = [stream |-> s, pos |-> 0, constants |-> ModuleConstants,
                   inv |-> <<Called(first), Called(second)>>]

\* the next step of the invocation is an iteration of its sampling loop
Iterates(f) ==
    IF f.call.generator = "generateSmallID"
    THEN f.pc = "loop" /\ f.i < f.call.size
    ELSE f.pc = "inner" /\ f.j < f.processLength

\* one of the two invocations makes its next step
PairStep(k) ==
    /\ pc = "pair"
    /\ pair.inv[k].pc # "done"
    /\ Iterates(pair.inv[k]) => pair.inv[k].steps < MaxPairExamined
    /\ pair' = IF pair.inv[k].call.generator = "generateSmallID"
               THEN SmallStep(k) ELSE BiasStepOf(k)
    /\ UNCHANGED <<rng, calc, pc, fn, args, stream, pos, bytes, fills, requested, examined,
                   rejected, warned, err, ret, nano, srs, cx, tally>>

PairNext == \E k \in 1..2 : PairStep(k)

PairSpec == PairInit /\ [][PairNext]_vars

(***************************************************************************)
(* The two assemblies on the same arguments and the same byte stream:      *)
(* generateSmallID then generateLargeID, and the branch of                 *)
(* generatePowerOf2ID for size <= 16 then the other one, each call with    *)
(* the byte source at the start of the stream.                             *)
(***************************************************************************)
\* a call of `generator` that builds its result by `branch`, with the mask
\* and step generateNanoID passes (generatePowerOf2ID: a buffer of size bytes)
AssemblyCall(generator, branch, size, alphabet) ==
    [generator |-> generator, branch |-> branch, size |-> size, chars |-> alphabet,
     mask |-> NanoMask(Len(alphabet)),
     step |-> IF generator = "generatePowerOf2ID" THEN size
              ELSE calculateOptimalStep(NanoMask(Len(alphabet)), size, Len(alphabet))]

\* the locals of such a call on entry; read lists the bytes it has read, as
\* their positions among the bytes delivered to it
AssemblyCalled(call) ==
    [call |-> call, pc |-> "called", bytes |-> NoBytes, pos |-> 0, fills |-> 0,
     i |-> 0, j |-> 0, result |-> <<>>, ret |-> <<>>, read |-> <<>>]

TwinSizes == {1, 3, 16, 17}

TwinAlphabets ==
    {<<"a", "b">>, ALPHABET_HEX, ALPHABET_DEFAULT,
     <<"H", "E", "X">>, ALPHABET_NUMERIC, ALPHABET_NO_CONFUSION}

\* the next step of a call of generateSmallID, generateLargeID or of a branch
\* of generatePowerOf2ID
AssemblyStep(f) ==
    LET c == f.call
        len == Len(c.chars)
        refill == OutOfBytes(f.j, f.bytes.length)
        buf == IF refill THEN [base |-> f.pos, length |-> f.bytes.length] ELSE f.bytes
        j == IF refill THEN 0 ELSE f.j
        r == MaskByte(ByteOf(stream, buf, j), c.mask)
        r2 == MaskByte(ByteOf(stream, f.bytes, f.i), c.mask)
    IN  IF f.pc = "called"
        THEN [f EXCEPT !.pc = "loop",
                       !.result = IF c.branch = "append" THEN <<>> ELSE NewArray(c.size),
                       !.bytes = [base |-> 0, length |-> c.step],
                       !.pos = c.step % Len(stream),
                       !.fills = 1]
        ELSE IF f.i >= c.size
        THEN [f EXCEPT !.pc = "done", !.ret = Finish(c.branch, f.result)]
        ELSE IF c.generator = "generatePowerOf2ID"
        THEN [f EXCEPT !.result = Put(c.branch, f.result, f.i, CharAt(c.chars, r2)),
                       !.i = f.i + 1,
                       !.read = Append(f.read, f.i)]
        ELSE [f EXCEPT !.bytes = buf,
                       !.pos = IF refill THEN (f.pos + f.bytes.length) % Len(stream) ELSE f.pos,
                       !.fills = IF refill THEN f.fills + 1 ELSE f.fills,
                       !.j = j + 1,
                       !.result = IF Rejects(r, len) THEN f.result
                                  ELSE Put(c.branch, f.result, f.i, CharAt(c.chars, r)),
                       !.i = IF Rejects(r, len) THEN f.i ELSE f.i + 1,
                       !.read = Append(f.read,
                                       (IF refill THEN f.fills ELSE f.fills - 1) * c.step + j)]

TwinInit ==
    /\ pc = "twin"
    /\ fn = ""
    /\ args = [size |-> Missing, alphabet |-> Missing]
    /\ pos = 0
    /\ bytes = NoBytes
    /\ fills = 0
    /\ requested = 0
    /\ examined = 0
    /\ rejected = 0
    /\ warned = 0
    /\ err = ""
    /\ ret = <<>>
    /\ nano = NoNano
    /\ srs = NoSrs
    /\ cx = NoCx
    /\ tally = NoTally
    /\ rng = NoRng
    /\ calc = NoCalc
    /\ \E s \in Streams, size \in TwinSizes, alphabet \in TwinAlphabets :
           /\ stream = s
           /\ pair = [stream |-> s, pos |-> 0, constants |-> ModuleConstants,
                      inv |-> IF isPowerOf2(Len(alphabet))
                              THEN <<AssemblyCalled(AssemblyCall("generatePowerOf2ID", "append",
                                                                 size, alphabet)),
                                     AssemblyCalled(AssemblyCall("generatePowerOf2ID", "join",
                                                                 size, alphabet))>>
                              ELSE <<AssemblyCalled(AssemblyCall("generateSmallID", "append",
                                                                 size, alphabet)),
                                     AssemblyCalled(AssemblyCall("generateLargeID", "join",
                                                                 size, alphabet))>>]

\* call k makes its next step; the second call is made when the first has
\* returned
TwinStep(k) ==
    /\ pc = "twin"
    /\ pair.inv[k].pc # "done"
    /\ k = 2 => pair.inv[1].pc = "done"
    /\ pair.inv[k].pc = "loop" /\ pair.inv[k].i < pair.inv[k].call.size
           => Len(pair.inv[k].read) < MaxExamined
    /\ pair' = [pair EXCEPT !.inv = Stored(pair.inv, k, AssemblyStep(pair.inv[k]))]
    /\ UNCHANGED <<rng, calc, pc, fn, args, stream, pos, bytes, fills, requested, examined,
                   rejected, warned, err, ret, nano, srs, cx, tally>>

TwinNext == \E k \in 1..2 : TwinStep(k)

TwinSpec == TwinInit /\ [][TwinNext]_vars

(***************************************************************************)
(* Numbers of the collision estimates: binary floating point, rounded to   *)
(* nearest (ties to even) after every operation as a JavaScript number is, *)
(* with a significand of Precision bits where binary64 keeps 53.  A number *)
(* is s * m * 2^e with s the sign, m = 0 or 2^(Precision-1) <= m <         *)
(* 2^Precision.  Values agree with binary64 to about four digits; the      *)
(* difference of two numbers that agree to Precision bits is 0 (in         *)
(* binary64 this happens from 53 bits on).                                 *)
(***************************************************************************)
Precision == 15
\* extra bits kept while two numbers are added
GuardBits == 3
\* below 2^MinExponent a result is 0 (binary64: 2^-1074)
MinExponent == -1074

Float(s, m, e) == [s |-> s, m |-> m, e |-> e]

Zero == Float(1, 0, 0)

\* s * m * 2^e for an integer 0 <= m < 2^31, rounded
Round(s, m, e) ==
    IF m = 0 THEN Zero
    ELSE LET b == BitLength(m)
             d == b - Precision
             q == m \div (2 ^ d)
             r == m % (2 ^ d)
             up == IF 2 * r > 2 ^ d \/ (2 * r = 2 ^ d /\ q % 2 = 1) THEN q + 1 ELSE q
         IN  IF e + b - 1 < MinExponent THEN Zero
             ELSE IF d <= 0 THEN Float(s, m * (2 ^ (-d)), e + d)
             ELSE IF up = 2 ^ Precision THEN Float(s, 2 ^ (Precision - 1), e + d + 1)
             ELSE Float(s, up, e + d)

\* the number an integer literal or argument denotes
FromInt(n) == IF n < 0 THEN Round(-1, -n, 0) ELSE Round(1, n, 0)

One == FromInt(1)

\* -a
Neg(a) == IF a.m = 0 THEN a ELSE [a EXCEPT !.s = -a.s]

\* a * b
Times(a, b) ==
    IF a.m = 0 \/ b.m = 0 THEN Zero ELSE Round(a.s * b.s, a.m * b.m, a.e + b.e)

\* a / b for b # 0: the quotient of the significands to Precision + 2 bits,
\* the last one telling whether a remainder was left
Over(a, b) ==
    IF a.m = 0 THEN Zero
    ELSE LET n == a.m * (2 ^ (Precision + 1))
             q == n \div b.m
             sticky == IF n % b.m = 0 THEN 0 ELSE 1
         IN  Round(a.s * b.s, 2 * q + sticky, a.e - b.e - Precision - 2)

\* m / 2^d, the last bit telling whether bits were lost
ShiftRightSticky(m, d) ==
    IF d = 0 THEN m
    ELSE IF d >= 31 THEN 1
    ELSE LET q == m \div (2 ^ d)
         IN  IF m % (2 ^ d) = 0 THEN q ELSE q + (1 - (q % 2))

\* a + b
Plus(a, b) ==
    IF a.m = 0 THEN b
    ELSE IF b.m = 0 THEN a
    ELSE LET hi == IF a.e >= b.e THEN a ELSE b
             lo == IF a.e >= b.e THEN b ELSE a
             t == hi.s * hi.m * (2 ^ GuardBits)
                  + lo.s * ShiftRightSticky(lo.m * (2 ^ GuardBits), hi.e - lo.e)
         IN  IF t < 0 THEN Round(-1, -t, hi.e - GuardBits)
             ELSE Round(1, t, hi.e - GuardBits)

\* a - b
Minus(a, b) == Plus(a, Neg(b))

\* a < b, a <= b, a > b
Less(a, b) == LET t == Minus(a, b) IN t.m # 0 /\ t.s < 0
LessEq(a, b) == LET t == Minus(a, b) IN t.m = 0 \/ t.s < 0
Greater(a, b) == Less(b, a)

\* the integer an integer-valued number of small magnitude holds
ToInt(a) ==
    IF a.m = 0 THEN 0
    ELSE IF a.e >= 0 THEN a.s * a.m * (2 ^ a.e)
    ELSE a.s * (a.m \div (2 ^ (-a.e)))

\* Math.floor(a) and Math.ceil(a), as integers
MathFloor(a) ==
    IF a.m = 0 THEN 0
    ELSE IF a.e >= 0 THEN a.s * a.m * (2 ^ a.e)
    ELSE IF -a.e >= 31 THEN (IF a.s > 0 THEN 0 ELSE -1)
    ELSE LET q == a.m \div (2 ^ (-a.e))
         IN  IF a.s > 0 THEN q
             ELSE IF a.m % (2 ^ (-a.e)) = 0 THEN -q ELSE -q - 1

MathCeil(a) == -MathFloor(Neg(a))

RECURSIVE PowLoop(_, _, _)
\* acc * base^n by squaring; a factor that fell to 0 leaves 0
PowLoop(acc, base, n) ==
    IF n = 0 THEN acc
    ELSE IF acc.m = 0 \/ base.m = 0 THEN Zero
    ELSE PowLoop(IF n % 2 = 1 THEN Times(acc, base) ELSE acc, Times(base, base), n \div 2)

\* x to the power n, n a natural number
IntPow(x, n) == PowLoop(One, x, n)

RECURSIVE SquareTimes(_, _)
\* x squared k times (0 squared is 0)
SquareTimes(x, k) == IF k = 0 \/ x.m = 0 THEN x ELSE SquareTimes(Times(x, x), k - 1)

\* x to the power y, y > 0 integer-valued: y = m * 2^e
PowNat(x, y) ==
    IF y.e <= 0 THEN IntPow(x, ToInt(y)) ELSE SquareTimes(IntPow(x, y.m), y.e)

\* Math.pow(x, y) for an integer-valued y; Math.pow(x, 0) is 1
MathPow(x, y) ==
    IF y.m = 0 THEN One
    ELSE IF y.s > 0 THEN PowNat(x, y)
    ELSE Over(One, PowNat(x, Neg(y)))

\* bits after the binary point in the logarithm and in the exponent of MathExp
FractionBits == 14

\* log2(1 + 2^-k) * 2^FractionBits for k = 1..FractionBits
Log2Table == <<9584, 5274, 2784, 1433, 727, 366, 184, 92, 46, 23, 12, 6, 3, 1>>

RECURSIVE Log2Frac(_, _, _)
\* log2(m / 2^(Precision-1)) * 2^FractionBits: x climbs from 1 towards m by
\* the factors 1 + 2^-k it can take
Log2Frac(m, x, k) ==
    IF k > FractionBits THEN 0
    ELSE LET z == x + (x \div (2 ^ k))
         IN  IF z <= m THEN Log2Table[k] + Log2Frac(m, z, k + 1)
             ELSE Log2Frac(m, x, k + 1)

\* Math.log2(a) for a > 0
MathLog2(a) ==
    Plus(FromInt(a.e + Precision - 1),
         Round(1, Log2Frac(a.m, 2 ^ (Precision - 1), 1), -FractionBits))

\* ln 2 and log2 e
Ln2 == Float(1, 22713, -15)
Log2E == Float(1, 23637, -14)

\* Math.log(a) for a > 0
MathLog(a) == Times(MathLog2(a), Ln2)

\* 2^(2^-k) * 2^(Precision-1) for k = 1..FractionBits
Pow2Table ==
    <<23170, 19484, 17867, 17109, 16743, 16562, 16473, 16428, 16406, 16395, 16390,
      16387, 16385, 16385>>

\* floor(f * 2^FractionBits) for 0 <= f <= 1
FracBits(f) ==
    IF f.m = 0 THEN 0
    ELSE IF f.e + FractionBits >= 0 THEN f.m * (2 ^ (f.e + FractionBits))
    ELSE IF -(f.e + FractionBits) >= 31 THEN 0
    ELSE f.m \div (2 ^ (-(f.e + FractionBits)))

RECURSIVE Pow2Frac(_, _)
\* 2^(fb / 2^FractionBits): the product of 2^(2^-k) over the bits k.. of fb
Pow2Frac(fb, k) ==
    IF k > FractionBits THEN One
    ELSE IF (fb \div (2 ^ (FractionBits - k))) % 2 = 1
    THEN Times(Float(1, Pow2Table[k], -(Precision - 1)), Pow2Frac(fb, k + 1))
    ELSE Pow2Frac(fb, k + 1)

\* Math.exp(a) = 2^(a * log2 e); Math.exp(0) is 1
MathExp(a) ==
    LET t == Times(a, Log2E)
        i == MathFloor(t)
        fb == FracBits(Minus(t, FromInt(i)))
        y == IF fb >= 2 ^ FractionBits THEN Times(One, FromInt(2)) ELSE Pow2Frac(fb, 1)
    IN  Round(y.s, y.m, y.e + i)

(***************************************************************************)
(* calculateCollisionProbability and recommendIdSize.                      *)
(***************************************************************************)
\* above this many bits the birthday approximation is used
DirectBitsMax == 60

\* a count that pairs every identifier with itself too
IdPairs_WithSelf(idCount) == Times(idCount, Plus(idCount, One))

\* idCount * (idCount - 1)
IdPairs(idCount) == Times(idCount, Minus(idCount, One))

\* if (size * Math.log2(alphabetSize) > 60)
UsesApproximation(size, alphabetSize) ==
    Greater(Times(size, MathLog2(alphabetSize)), FromInt(DirectBitsMax))

\* calculateCollisionProbability(size, alphabetSize, idCount), in percent
calculateCollisionProbability(size, alphabetSize, idCount) ==
    LET possibilities == MathPow(alphabetSize, size)
    IN  IF UsesApproximation(size, alphabetSize)
        THEN LET exponent == Neg(Over(IdPairs(idCount), Times(FromInt(2), possibilities)))
             IN  Times(Minus(One, MathExp(exponent)), FromInt(100))
        ELSE Times(Minus(One, MathPow(Over(Minus(possibilities, One), possibilities),
                                      Over(IdPairs(idCount), FromInt(2)))),
                   FromInt(100))

\* recommendIdSize(alphabetSize, idCount, maxCollisionProbability)
recommendIdSize(alphabetSize, idCount, maxCollisionProbability) ==
    LET p == Over(maxCollisionProbability, FromInt(100))
        n == idCount
        bitsNeeded ==
            MathCeil(MathLog2(Over(Times(n, n), Times(FromInt(-2), MathLog(Minus(One, p))))))
        entropyPerChar == MathLog2(alphabetSize)
    IN  FromInt(MathCeil(Over(FromInt(bitsNeeded), entropyPerChar)))

\* the arguments of the calls.  Shapes are <<size, alphabetSize>> on both sides
\* of 60 bits; on the direct branch they have at most 2^Precision
\* possibilities, or 2^60, where binary64 too rounds (P - 1) / P to 1.
\* Counts go from none to 2^30 identifiers, ceilings (percent, as fractions)
\* from strict to lenient.
Shapes ==
    {<<3, 1>>, <<1, 2>>, <<2, 2>>, <<11, 2>>, <<1, 16>>, <<2, 16>>, <<3, 16>>,
     <<1, 64>>, <<2, 64>>, <<10, 64>>, <<11, 64>>, <<21, 16>>, <<21, 64>>}
AlphabetSizes == {2, 16, 64}
IdCounts == {0, 1, 2, 5, 1000, 2 ^ 30}
RecommendIdCounts == {1, 2, 5, 2 ^ 30}
Ceilings == {<<1, 1>>, <<10, 1>>, <<50, 1>>, <<90, 1>>, <<99, 1>>, <<999, 10>>}

\* the ceiling as a number
Percent(ceiling) == Over(FromInt(ceiling[1]), FromInt(ceiling[2]))

CalcInit ==
    /\ pc = "calc"
    /\ fn = ""
    /\ args = [size |-> Missing, alphabet |-> Missing]
    /\ stream = <<0>>
    /\ pos = 0
    /\ bytes = NoBytes
    /\ fills = 0
    /\ requested = 0
    /\ examined = 0
    /\ rejected = 0
    /\ warned = 0
    /\ err = ""
    /\ ret = <<>>
    /\ nano = NoNano
    /\ srs = NoSrs
    /\ cx = NoCx
    /\ tally = NoTally
    /\ rng = NoRng
    /\ pair = NoPair
    /\ \/ \E shape \in Shapes, idCount \in IdCounts :
              calc = [op |-> "calculateCollisionProbability", stage |-> "called",
                      size |-> shape[1], alphabetSize |-> shape[2], idCount |-> idCount,
                      ceiling |-> <<>>, result |-> <<>>]
       \/ \E alphabetSize \in AlphabetSizes, idCount \in RecommendIdCounts,
             ceiling \in Ceilings :
              calc = [op |-> "recommendIdSize", stage |-> "called",
                      size |-> 0, alphabetSize |-> alphabetSize, idCount |-> idCount,
                      ceiling |-> ceiling, result |-> <<>>]

\* calculateCollisionProbability returns
CollisionCall ==
    /\ pc = "calc"
    /\ calc.op = "calculateCollisionProbability" /\ calc.stage = "called"
    /\ calc' = [calc EXCEPT
                   !.stage = "returned",
                   !.result = calculateCollisionProbability(
                                  FromInt(calc.size), FromInt(calc.alphabetSize),
                                  FromInt(calc.idCount))]
    /\ UNCHANGED <<rng, pair, pc, fn, args, stream, pos, bytes, fills, requested, examined,
                   rejected, warned, err, ret, nano, srs, cx, tally>>

\* recommendIdSize returns; the size it recommends is kept
RecommendCall ==
    /\ pc = "calc"
    /\ calc.op = "recommendIdSize" /\ calc.stage = "called"
    /\ calc' = [calc EXCEPT
                   !.stage = "returned",
                   !.size = ToInt(recommendIdSize(FromInt(calc.alphabetSize),
                                                  FromInt(calc.idCount),
                                                  Percent(calc.ceiling)))]
    /\ UNCHANGED <<rng, pair, pc, fn, args, stream, pos, bytes, fills, requested, examined,
                   rejected, warned, err, ret, nano, srs, cx, tally>>

\* calculateCollisionProbability is called with the recommended size
CollisionOfRecommended ==
    /\ pc = "calc"
    /\ calc.op = "recommendIdSize" /\ calc.stage = "returned"
    /\ calc' = [calc EXCEPT
                   !.stage = "checked",
                   !.result = calculateCollisionProbability(
                                  FromInt(calc.size), FromInt(calc.alphabetSize),
                                  FromInt(calc.idCount))]
    /\ UNCHANGED <<rng, pair, pc, fn, args, stream, pos, bytes, fills, requested, examined,
                   rejected, warned, err, ret, nano, srs, cx, tally>>

CalcNext == CollisionCall \/ RecommendCall \/ CollisionOfRecommended

CalcSpec == CalcInit /\ [][CalcNext]_vars

(***************************************************************************)
(* Properties.                                                             *)
(***************************************************************************)
Range(seq) == {seq[k] : k \in 1..Len(seq)}

\* a call of fn is past its entry and has not thrown
Running(f) == fn = f /\ pc \notin {"idle", "error"}

\* the size generateNanoID was asked for, the default when none was given
AskedSize == IF args.size = Missing THEN 21 ELSE args.size.num \div args.size.den

\* the asked size is an integer >= 1
AskedSizeValid ==
    args.size = Missing \/ (args.size.num % args.size.den = 0 /\ args.size.num >= 1)

\* C1: whenever generateNanoID returns, the string has exactly `size`
\* characters, on the power-of-two path and on the general path, by append
\* and by join, whatever bytes were delivered, rejected or refilled.
C1_LengthExact ==
    (fn = "generateNanoID" /\ pc = "done") => Len(ret) = AskedSize

\* a general-path call of more than 16 characters that rejected bytes and
\* refilled its buffer has returned
C1_Witness ==
    /\ fn = "generateNanoID" /\ pc = "done"
    /\ nano.strategy = "join" /\ nano.len \notin {2, 4, 8, 16, 32, 64}
    /\ rejected > 0 /\ fills > 1
    /\ Len(ret) = 17

\* C2: every index generateNanoID reads its alphabet at lies in 0..len-1, and
\* every character of the result, while it is built and when it is
\* returned, is a character of the alphabet sampled from.
C2_AlphabetContainment ==
    fn = "generateNanoID" /\ pc \in {"powerOf2", "general", "done"} =>
        /\ nano.idx >= -1 /\ nano.idx < Len(nano.alphabetStr)
        /\ \A k \in 1..Len(nano.result) :
               nano.result[k] = Hole \/ nano.result[k] \in Range(nano.alphabetStr)
        /\ pc = "done" => \A k \in 1..Len(ret) : ret[k] \in Range(nano.alphabetStr)

\* a string over the numeric alphabet has been returned after a rejection
C2_Witness ==
    /\ fn = "generateNanoID" /\ pc = "done"
    /\ nano.alphabetStr = ALPHABET_NUMERIC /\ rejected > 0
    /\ "5" \in Range(ret)

\* C3: for every alphabet length n in 2..256 and the mask derived for it, a
\* byte whose masked value is >= n is rejected (never reduced to an index),
\* and once all 256 byte values went through the sampler every index 0..n-1
\* was reached by the same number of them, 256 / (mask + 1).
C3_MaskSamplingUnbiased ==
    pc = "tally" =>
        /\ tally.byte > 0 /\ BitAnd(tally.byte - 1, tally.mask) >= tally.len
               => tally.index = Rejected
        /\ tally.byte > 0 /\ BitAnd(tally.byte - 1, tally.mask) < tally.len
               => tally.index = BitAnd(tally.byte - 1, tally.mask)
        /\ tally.byte = ByteValues =>
               \A k \in 1..tally.len : tally.count[k] = ByteValues \div (tally.mask + 1)

\* all byte values went through the sampler of a 10-symbol alphabet, 96 of
\* them rejected
C3_Witness ==
    pc = "tally" /\ tally.len = 10 /\ tally.byte = ByteValues /\ tally.rejects = 96

\* C4: with a power-of-two alphabet generateNanoID fills the byte source once,
\* with `size` bytes, rejects nothing and output position i is
\* alphabet[bytes[i] & (len - 1)]; generateHexString accepts every byte it
\* examines; in both the bytes examined are as many as the characters
\* produced, and as the characters returned.
C4_PowerOfTwoNoRejection ==
    /\ Running("generateNanoID") /\ Len(nano.alphabetStr) \in {2, 4, 8, 16, 32, 64} =>
           /\ fills = 1 /\ requested = AskedSize
           /\ rejected = 0
           /\ examined = nano.i
           /\ \A k \in 0..(nano.i - 1) :
                  nano.result[k + 1] =
                      nano.alphabetStr[BitAnd(ByteOf(stream, bytes, k),
                                              Len(nano.alphabetStr) - 1) + 1]
           /\ pc = "done" => examined = Len(ret)
    /\ Running("generateHexString") =>
           /\ rejected = 0
           /\ examined = srs.resultIndex
           /\ pc = "done" => examined = Len(ret)

\* a hex string of three characters has been returned
C4_Witness ==
    /\ fn = "generateHexString" /\ pc = "done" /\ Len(ret) = 3 /\ examined = 3

\* generateNanoID has returned 24 characters over the 64-symbol alphabet
C4_WitnessNano ==
    /\ fn = "generateNanoID" /\ pc = "done" /\ Len(ret) = 24
    /\ nano.alphabetStr = ALPHABET_DEFAULT /\ examined = 24

\* C5: generateNanoID throws the size error for every size that is <= 0 or
\* no integer, whatever the alphabet, before a byte is requested and before
\* an advisory is emitted; nothing is returned.
C5_InvalidSizeThrowsFirst ==
    (fn = "generateNanoID" /\ pc # "idle" /\ ~AskedSizeValid) =>
        /\ pc = "error" /\ err = SizeError
        /\ fills = 0 /\ requested = 0 /\ examined = 0
        /\ warned = 0
        /\ ret = <<>>

\* size 0 was rejected although the alphabet is too short as well
C5_Witness ==
    /\ fn = "generateNanoID" /\ pc = "error" /\ err = SizeError
    /\ args.size = Num(0) /\ args.alphabet = Str(<<"a">>)

\* the symbols of a caller-supplied alphabet
AskedAlphabet ==
    IF fn = "generateNanoID"
    THEN IF args.alphabet.type = "string" THEN args.alphabet.val ELSE ALPHABET_DEFAULT
    ELSE args.customCharset.val

\* the generator was called with a valid length
AskedLengthValid ==
    IF fn = "generateNanoID" THEN AskedSizeValid ELSE args.length.num >= 1

\* C6: generateNanoID and generateCustomString throw an alphabet error
\* whenever the alphabet has fewer than 2 distinct symbols (empty, one
\* character, one character repeated).
C6_FewerThanTwoSymbolsThrows ==
    (/\ fn \in {"generateNanoID", "generateCustomString"} /\ pc # "idle"
     /\ AskedLengthValid
     /\ Cardinality(Range(AskedAlphabet)) < 2)
        => pc = "error" /\ err \in {AlphabetError, CustomCharsetError, CharsetError}

\* C7: called with a key of ALPHABET, generateNanoID samples from the
\* alphabet the key names: every character returned is one of its symbols.
C7_KeyNamesPredefinedAlphabet ==
    (/\ fn = "generateNanoID" /\ pc = "done"
     /\ args.alphabet.type = "string" /\ args.alphabet.val \in ALPHABET_KEYS)
        => \A k \in 1..Len(ret) : ret[k] \in Range(ALPHABET(args.alphabet.val))

\* no character occurs twice
NoRepeat(str) == \A a, b \in 1..Len(str) : str[a] = str[b] => a = b

\* C8: the alphabet generateNanoID and generateCustomString sample from holds
\* every distinct symbol of the caller's alphabet once.
C8_AlphabetDeduplicated ==
    /\ Running("generateNanoID") =>
           NoRepeat(nano.alphabetStr) /\ Range(nano.alphabetStr) = Range(AskedAlphabet)
    /\ Running("generateCustomString") =>
           NoRepeat(srs.charset) /\ Range(srs.charset) = Range(AskedAlphabet)

\* the least size with size * log2(len) >= 64, for the alphabet lengths of
\* the calls above
MinAdequateSize(len) ==
    CASE len = 2 -> 64
      [] len = 3 -> 41
      [] len = 7 -> 23
      [] len = 10 -> 20
      [] len = 16 -> 16
      [] len = 49 -> 12
      [] len = 64 -> 11

\* C9: a generateNanoID call that passes validation emits the advisory once
\* when size * log2(len) < 64 and never otherwise; the call still returns
\* `size` characters of the alphabet; the defaults and size 24 emit none.
C9_LowEntropyAdvisory ==
    Running("generateNanoID") =>
        /\ warned = IF AskedSize < MinAdequateSize(Len(nano.alphabetStr)) THEN 1 ELSE 0
        /\ pc = "done" =>
               /\ Len(ret) = AskedSize
               /\ \A k \in 1..Len(ret) : ret[k] \in Range(nano.alphabetStr)
        /\ args.alphabet = Missing /\ args.size \in {Missing, Num(24)} => warned = 0

\* a call with exactly 64 bits (16 hex characters) emitted nothing, ...
C9_Witness ==
    /\ fn = "generateNanoID" /\ pc = "done" /\ warned = 0
    /\ nano.alphabetStr = ALPHABET_HEX /\ Len(ret) = 16

\* ... and a call with 60 bits (15 hex characters) returned after the advisory
C9_WitnessAdvisory ==
    /\ fn = "generateNanoID" /\ pc = "done" /\ warned = 1
    /\ nano.alphabetStr = ALPHABET_HEX /\ Len(ret) = 15

\* C10: generateComplexString returns, without throwing, exactly `length`
\* characters for every length >= 4 and every option set with a class
\* enabled.
C10_ComplexReturnsLength ==
    (/\ fn = "generateComplexString" /\ pc # "idle"
     /\ args.length.num >= 4
     /\ (args.options.lowercase \/ args.options.uppercase \/ args.options.numbers
         \/ args.options.symbols # <<>>))
        => /\ pc # "error"
           /\ pc = "done" => Len(ret) = args.length.num

\* C11: every string generateComplexString returns holds at least one
\* character of each enabled class (a lowercase letter, an uppercase letter,
\* a digit, a symbol of the supplied set), whatever bytes drove the samplers
\* and the final shuffle.
C11_EachEnabledClassPresent ==
    (fn = "generateComplexString" /\ pc = "done") =>
        /\ args.options.lowercase => Range(ret) \cap Range(LOWERCASE_CHARS) # {}
        /\ args.options.uppercase => Range(ret) \cap Range(UPPERCASE_CHARS) # {}
        /\ args.options.numbers => Range(ret) \cap Range(NUMERIC_CHARS) # {}
        /\ args.options.symbols # <<>> => Range(ret) \cap Range(args.options.symbols) # {}

\* five characters of all four classes were returned, the shuffle having
\* moved the required lowercase letter away from the front
C11_Witness ==
    /\ fn = "generateComplexString" /\ pc = "done"
    /\ args.options = Options(TRUE, TRUE, TRUE, <<"!", "?">>)
    /\ Len(ret) = 5
    /\ ret[1] \notin Range(LOWERCASE_CHARS)

\* C12: generateComplexString throws when length < 4 and when no class is
\* enabled (lowercase, uppercase, numbers false and symbols empty), in both
\* cases before the byte source is read; no string is returned.
C12_ComplexInvalidThrowsFirst ==
    (fn = "generateComplexString" /\ pc # "idle") =>
        /\ args.length.num < 4 =>
               /\ pc = "error" /\ err = ComplexLengthError
               /\ fills = 0 /\ requested = 0 /\ examined = 0 /\ ret = <<>>
        /\ (/\ args.length.num >= 4
            /\ ~args.options.lowercase /\ ~args.options.uppercase /\ ~args.options.numbers
            /\ args.options.symbols = <<>>) =>
               /\ pc = "error" /\ err = NoClassError
               /\ fills = 0 /\ requested = 0 /\ examined = 0 /\ ret = <<>>

\* a call of length 5 with no class enabled has thrown
C12_Witness ==
    /\ fn = "generateComplexString" /\ pc = "error" /\ err = NoClassError
    /\ args.length = Num(5) /\ args.options = Options(FALSE, FALSE, FALSE, <<>>)
    /\ fills = 0

\* a call of length 3 with every class enabled has thrown
C12_WitnessLength ==
    /\ fn = "generateComplexString" /\ pc = "error" /\ err = ComplexLengthError
    /\ args.length = Num(3) /\ args.options = Options(TRUE, TRUE, TRUE, <<"!", "?">>)
    /\ fills = 0

\* the length a charset generator was asked for, its default when none was given
AskedLength ==
    IF args.length # Missing THEN args.length.num
    ELSE CASE fn = "generateRandomSalt" -> 16
           [] fn = "generateToken" -> 32
           [] fn = "generateHexString" -> 32
           [] fn = "generateNumericString" -> 6

Digits == {"0", "1", "2", "3", "4", "5", "6", "7", "8", "9"}

\* the characters a charset generator may return
CharsetOf(f) ==
    CASE f \in {"generateRandomSalt", "generateToken"} ->
             Range(LOWERCASE_CHARS) \cup Range(UPPERCASE_CHARS) \cup Digits
      [] f = "generateHexString" -> Digits \cup {"a", "b", "c", "d", "e", "f"}
      [] f = "generateNumericString" -> Digits

C13_WitnessSalt ==
    /\ fn = "generateRandomSalt" /\ pc = "done" /\ args.length = Num(7)
    /\ warned = 1 /\ Len(ret) = 7

\* ... and three digits after a rejected byte
C13_WitnessNumeric ==
    /\ fn = "generateNumericString" /\ pc = "done" /\ Len(ret) = 3 /\ rejected > 0

\* a direct call of a generator of the charset engine is in, or past, a sampler
EngineCall ==
    /\ fn \in {"generateRandomSalt", "generateToken", "generateHexString",
               "generateNumericString", "generateCustomString"}
    /\ pc \in {"rejection", "rejectionInner", "biasReduction", "biasInner", "done"}

\* the symbols the first k bytes of the buffer select from charset when a
\* byte b counts iff b < floor(256 / n) * n and then selects charset[b mod n]
RECURSIVE AcceptedSymbols(_, _)
AcceptedSymbols(charset, k) ==
    IF k = 0 THEN <<>>
    ELSE LET b == ByteOf(stream, bytes, k - 1)
             n == Len(charset)
             before == AcceptedSymbols(charset, k - 1)
         IN  IF b < (256 \div n) * n THEN Append(before, charset[(b % n) + 1]) ELSE before

\* C19: with a charset of n <= 16 symbols the engine accepts a byte b iff
\* b < floor(256 / n) * n and then selects index b mod n: a byte at or above
\* that bound adds no symbol to the output, and of the 256 byte values
\* exactly floor(256 / n) select each index 0..n-1.
C19_RejectionSamplingUniform ==
    /\ (pc = "charsetTally" /\ tally.len <= 16) =>
           /\ tally.byte > 0 =>
                  tally.index = IF tally.byte - 1 < (256 \div tally.len) * tally.len
                                THEN (tally.byte - 1) % tally.len
                                ELSE Rejected
           /\ tally.byte = 256 =>
                  /\ \A k \in 1..tally.len : tally.count[k] = 256 \div tally.len
                  /\ tally.rejects = 256 - (256 \div tally.len) * tally.len
    /\ (EngineCall /\ srs.charsetLength <= 16 /\ fills = 1) =>
           /\ examined = srs.i
           /\ rejected = srs.i - srs.resultIndex
           /\ SubSeq(srs.result, 1, srs.resultIndex) = AcceptedSymbols(srs.charset, srs.i)
           /\ pc = "done" => ret = AcceptedSymbols(srs.charset, srs.i)

\* all byte values went through the sampler of a 10-symbol charset: 25 for
\* each index, 6 rejected
C19_Witness ==
    /\ pc = "charsetTally" /\ tally.len = 10 /\ tally.byte = 256
    /\ tally.rejects = 6 /\ tally.count[1] = 25 /\ tally.count[10] = 25

\* three digits were returned, a byte of value 250 or more having been skipped
C19_WitnessCall ==
    /\ fn = "generateNumericString" /\ pc = "done" /\ Len(ret) = 3
    /\ rejected > 0 /\ examined = 3 + rejected

\* C20: with a charset of n > 16 symbols the engine rejects no byte: output
\* position k is charset[b mod n] for the k-th byte read, and `length` bytes
\* are read in all; of the 256 byte values, floor(256 / n) + 1 select each of
\* the lowest 256 mod n indices and floor(256 / n) each other one (n <= 256),
\* so all indices are equally served only when n divides 256.
C20_BiasReductionModulo ==
    /\ (pc = "charsetTally" /\ tally.len > 16) =>
           /\ tally.byte > 0 => tally.index = (tally.byte - 1) % tally.len
           /\ tally.rejects = 0
           /\ tally.byte = 256 =>
                  /\ \A k \in 1..tally.len :
                         tally.count[k] = (256 \div tally.len)
                                          + (IF k - 1 < 256 % tally.len THEN 1 ELSE 0)
                  /\ \A k, l \in 1..tally.len :
                         tally.count[k] - tally.count[l] \in {-1, 0, 1}
                  /\ (\A k, l \in 1..tally.len : tally.count[k] = tally.count[l])
                         <=> 256 % tally.len = 0
    /\ (EngineCall /\ srs.charsetLength > 16) =>
           /\ rejected = 0
           /\ examined = IF pc = "biasInner" THEN srs.resultIndex + srs.i ELSE srs.resultIndex
           /\ \A k \in 0..(examined - 1) :
                  srs.result[k + 1] =
                      srs.charset[(ByteOf(stream, bytes, k) % srs.charsetLength) + 1]
           /\ pc = "done" => examined = srs.length /\ Len(ret) = srs.length

\* all byte values went through the sampler of the 62-symbol charset: 5 for
\* each of the indices 0..7, 4 for each other one
C20_Witness ==
    /\ pc = "charsetTally" /\ tally.len = 62 /\ tally.byte = 256
    /\ tally.rejects = 0 /\ tally.count[8] = 5 /\ tally.count[9] = 4

\* a token of 16 characters was returned after 16 bytes were read
C20_WitnessCall ==
    /\ fn = "generateToken" /\ pc = "done" /\ Len(ret) = 16 /\ examined = 16

\* the sources getSecureRandomValues may fill a buffer with
SecureSources == {"crypto.getRandomValues", "randomFillSync", "self.crypto.getRandomValues"}

\* the platform offers the source, to the branch that would use it
Offers(env, source) ==
    CASE source = "crypto.getRandomValues" -> env.crypto # "absent"
      [] source = "randomFillSync" -> env.node /\ env.nodeCrypto # "absent"
      [] source = "self.crypto.getRandomValues" -> env.selfCrypto # "absent"

\* C17: getSecureRandomValues(buffer) either returns the very buffer it was
\* given after a platform secure source (crypto.getRandomValues, Node's
\* randomFillSync, self.crypto.getRandomValues) filled it, or throws; it
\* throws when none of the three is there; it never returns a buffer left
\* unfilled or filled by another generator.
C17_SecureSourceOrThrow ==
    (pc = "source" /\ rng.outcome # "called") =>
        /\ rng.outcome \in {"returned", "threw"}
        /\ rng.outcome = "returned" =>
               /\ rng.returned = "buffer"
               /\ rng.buffer.filledBy \in SecureSources
               /\ Offers(rng.env, rng.buffer.filledBy)
        /\ rng.outcome = "threw" =>
               /\ rng.returned = "none"
               /\ rng.buffer.filledBy = "none"
               /\ rng.err # ""
        /\ (\A source \in SecureSources : ~Offers(rng.env, source)) =>
               rng.outcome = "threw"

\* on a platform with none of the three sources the call has thrown
C17_Witness ==
    /\ pc = "source" /\ rng.outcome = "threw" /\ rng.err = NotSupportedError
    /\ rng.env.crypto = "absent" /\ ~rng.env.node /\ rng.env.selfCrypto = "absent"
    /\ rng.buffer.length = 3

\* under Node without a global crypto the buffer came back filled by randomFillSync
C17_WitnessNode ==
    /\ pc = "source" /\ rng.outcome = "returned" /\ rng.buffer.filledBy = "randomFillSync"
    /\ rng.env.crypto = "absent" /\ rng.env.node

\* the string generateSmallID builds when it reads the bytes `left` in order,
\* having built `result` so far
RECURSIVE SmallAlone(_, _, _)
SmallAlone(call, left, result) ==
    IF Len(result) = call.size \/ left = <<>> THEN result
    ELSE LET r == BitAnd(Head(left), call.mask)
         IN  SmallAlone(call, Tail(left),
                        IF r < Len(call.chars) THEN Append(result, call.chars[r + 1])
                        ELSE result)

\* the string an invocation returns when it runs alone on the bytes `delivered`
Alone(call, delivered) ==
    IF call.generator = "generateSmallID"
    THEN SmallAlone(call, delivered, <<>>)
    ELSE [p \in 1..call.size |-> call.chars[(delivered[p] % Len(call.chars)) + 1]]

\* the bytes of `delivered` an invocation has read so far
ReadSoFar(f) == SubSeq(f.delivered, 1, Len(f.delivered) - Len(f.buf) + f.j)

\* C18: when the steps of two invocations (of generateSmallID, of
\* generateWithBiasReduction) are interleaved, each keeps its own buffer,
\* read position and result: it returns the string it would return alone on
\* the bytes delivered to it; the predefined alphabets are never written.
C18_InvocationsIndependent ==
    pc = "pair" =>
        /\ pair.constants = ModuleConstants
        /\ \A k \in 1..2 :
               LET f == pair.inv[k]
               IN  /\ f.j <= Len(f.buf) /\ Len(f.buf) <= Len(f.delivered)
                   /\ f.buf = SubSeq(f.delivered, Len(f.delivered) - Len(f.buf) + 1,
                                     Len(f.delivered))
                   /\ f.call.generator = "generateSmallID" =>
                          f.result = SmallAlone(f.call, ReadSoFar(f), <<>>)
                   /\ f.pc = "done" =>
                          /\ f.ret = Alone(f.call, f.delivered)
                          /\ Len(f.ret) = f.call.size

\* the first invocation has returned three digits after a refill, the second
\* one, in its loop, having had its buffer filled between the two fills of
\* the first
C18_Witness ==
    /\ pc = "pair"
    /\ pair.inv[1].call = SmallCall(3, ALPHABET_NUMERIC)
    /\ pair.inv[2].call = SmallCall(3, ALPHABET_NUMERIC)
    /\ pair.inv[1].pc = "done" /\ Len(pair.inv[1].ret) = 3
    /\ Len(pair.inv[1].delivered) = 2 * pair.inv[1].call.step
    /\ pair.inv[1].delivered # Take(pair.stream, 0, 2 * pair.inv[1].call.step)
    /\ pair.inv[2].pc = "loop" /\ pair.inv[2].i = 1

\* a small generator and a bias-reduction generator have both returned
C18_WitnessMixed ==
    /\ pc = "pair"
    /\ pair.inv[1].call.generator = "generateWithBiasReduction"
    /\ pair.inv[2].call.generator = "generateSmallID"
    /\ pair.inv[1].pc = "done" /\ pair.inv[2].pc = "done"
    /\ pair.inv[2].steps > pair.inv[2].call.size

(***************************************************************************)
(* Collision estimates.                                                    *)
(***************************************************************************)
\* calculateCollisionProbability has returned calc.result
HasProbability ==
    /\ pc = "calc"
    /\ \/ calc.op = "calculateCollisionProbability" /\ calc.stage = "returned"
       \/ calc.op = "recommendIdSize" /\ calc.stage = "checked"

\* the branch the call took
OnApproximation == UsesApproximation(FromInt(calc.size), FromInt(calc.alphabetSize))

\* C14: for positive arguments calculateCollisionProbability returns 0 when
\* idCount <= 1, on the direct and on the approximation branch, and every
\* result lies in 0..100.
C14_ZeroPairsZeroAndInRange ==
    (HasProbability /\ calc.size >= 1) =>
        /\ calc.idCount <= 1 => calc.result.m = 0
        /\ LessEq(Zero, calc.result)
        /\ LessEq(calc.result, FromInt(100))

\* one identifier, direct branch: 0
C14_Witness ==
    /\ HasProbability /\ calc.size >= 1
    /\ calc.idCount = 1
    /\ ~OnApproximation
    /\ calc.result = Zero

\* no identifier, approximation branch: 0
C14_WitnessApproximation ==
    /\ HasProbability /\ calc.size >= 1
    /\ calc.idCount = 0
    /\ OnApproximation
    /\ calc.result = Zero

\* many identifiers: a result strictly inside the range on the approximation
\* branch
C14_WitnessInside ==
    /\ HasProbability /\ calc.size >= 1
    /\ calc.idCount > 1
    /\ OnApproximation
    /\ Less(Zero, calc.result) /\ Less(calc.result, FromInt(100))

\* C15: the probability calculateCollisionProbability returns for the size
\* recommendIdSize recommended, with the same alphabetSize and idCount, is at
\* most the ceiling.
C15_RoundTripBelowCeiling ==
    (pc = "calc" /\ calc.op = "recommendIdSize" /\ calc.stage = "checked") =>
        LessEq(calc.result, Percent(calc.ceiling))

\* C16: recommendIdSize returns an integer >= 1, small idCount with a
\* lenient ceiling included.
C16_RecommendedSizePositive ==
    (pc = "calc" /\ calc.op = "recommendIdSize" /\ calc.stage = "returned") =>
        calc.size >= 1

(***************************************************************************)
(* The mask and its rejections.                                            *)
(***************************************************************************)
\* x is 2^k for a k in 0..30
IsPowerOfTwo(x) == \E k \in 0..30 : x = 2 ^ k

\* C21: for every alphabet length n >= 2 the mask of generateNanoID is one
\* less than a power of two and the smallest such value >= n - 1 (mask + 1 is
\* a power of two, mask + 1 >= n, and half of it is below n); on the
\* power-of-two path the mask is n - 1.
C21_MaskSmallestPowerMinusOne ==
    pc = "masked" =>
        /\ IsPowerOfTwo(tally.maskPlus1)
        /\ tally.maskPlus1 >= tally.len
        /\ tally.maskPlus1 \div 2 < tally.len
        /\ tally.path = "powerOf2" => tally.maskPlus1 - 1 = tally.len - 1

\* C22: for every alphabet length n in 2..256, of the 256 byte values the
\* sampler of generateNanoID rejects the fraction (mask + 1 - n) / (mask + 1),
\* which is below 1/2, is 0 exactly when n is a power of two, and among the
\* lengths of one mask is largest at one more than a power of two,
\* n = (mask + 1) / 2 + 1.
C22_RejectsFewerThanHalf ==
    (pc = "tally" /\ tally.byte = ByteValues) =>
        /\ tally.rejects * (tally.mask + 1) = (tally.mask + 1 - tally.len) * ByteValues
        /\ 2 * tally.rejects < ByteValues
        /\ tally.rejects = 0 <=> IsPowerOfTwo(tally.len)
        /\ tally.rejects * (tally.mask + 1) <= ((tally.mask + 1) \div 2 - 1) * ByteValues
        /\ tally.rejects * (tally.mask + 1) = ((tally.mask + 1) \div 2 - 1) * ByteValues
               <=> tally.len = (tally.mask + 1) \div 2 + 1

\* 129 symbols: 127 of the 256 byte values are rejected
C22_Witness ==
    pc = "tally" /\ tally.byte = ByteValues /\ tally.len = 129 /\ tally.rejects = 127

\* 64 symbols: no byte value is rejected
C22_WitnessPowerOfTwo ==
    pc = "tally" /\ tally.byte = ByteValues /\ tally.len = 64 /\ tally.rejects = 0

(***************************************************************************)
(* The general path of generateNanoID, byte by byte.                       *)
(***************************************************************************)
\* byte k (from 0) of all the bytes the source delivers to a call, in order
Delivered(k) == stream[(k % Len(stream)) + 1]

RECURSIVE NanoAccepted(_)
\* alphabet[v] for the values v = b & mask with v < len among the first k
\* delivered bytes, up to `size` of them
NanoAccepted(k) ==
    IF k = 0 THEN <<>>
    ELSE LET before == NanoAccepted(k - 1)
             v == BitAnd(Delivered(k - 1), nano.mask)
         IN  IF Len(before) < nano.size /\ v < nano.len
             THEN Append(before, nano.alphabetStr[v + 1])
             ELSE before

\* generateNanoID is on its general path, or has returned from it
OnGeneralPath ==
    fn = "generateNanoID" /\ pc \in {"general", "done"} /\ ~IsPowerOfTwo(nano.len)

\* C23: on the general path every buffer has `step` bytes and begins where
\* the one before ended; a refill happens only when the whole buffer has been
\* examined and each delivered byte is examined at most once (the bytes
\* examined are the first `examined` delivered ones); the string built, and
\* returned, is alphabet[v] for the first `size` accepted values of the
\* delivered bytes in order: a function of the byte stream in which the step
\* does not occur.
C23_GeneralPathDeterministic ==
    OnGeneralPath =>
        /\ bytes.length = nano.step /\ requested = fills * nano.step
        /\ bytes.base = ((fills - 1) * nano.step) % Len(stream)
        /\ nano.j <= bytes.length
        /\ examined = (fills - 1) * nano.step + nano.j
        /\ nano.i = Len(NanoAccepted(examined))
        /\ SubSeq(nano.result, 1, nano.i) = NanoAccepted(examined)
        /\ pc = "done" =>
               /\ ret = NanoAccepted(examined)
               /\ Len(ret) = nano.size
               /\ Len(NanoAccepted(examined - 1)) = nano.size - 1

\* three digits were returned from the bytes 250 37 250 37 250 | 37: two
\* rejections in the first buffer, the third digit from the second buffer
C23_Witness ==
    /\ OnGeneralPath /\ pc = "done"
    /\ nano.alphabetStr = ALPHABET_NUMERIC /\ nano.step = 5
    /\ stream = <<250, 37>>
    /\ fills = 2 /\ examined = 6 /\ rejected = 3
    /\ ret = <<"5", "5", "5">>

(***************************************************************************)
(* The assembly strategy.                                                  *)
(***************************************************************************)
\* generateNanoID is building or has returned a string
Assembling == fn = "generateNanoID" /\ pc \in {"powerOf2", "general", "done"}

\* the result is a string grown by one character per accepted byte, or an
\* array of `size` entries allocated on entry and filled from the left
BuiltByAppend == Len(nano.result) = nano.i
BuiltInArray ==
    /\ Len(nano.result) = nano.size
    /\ \A k \in (nano.i + 1)..nano.size : nano.result[k] = Hole

\* C24, as stated: append for size below 16, array and join for size at or
\* above 16, size = 16 included.
C24_StrategyThreshold16 ==
    Assembling =>
        /\ AskedSize < 16 => nano.strategy = "append" /\ BuiltByAppend
        /\ AskedSize >= 16 => nano.strategy = "join" /\ BuiltInArray

\* C24, amended: append for size up to 16, size = 16 included; array and join
\* for size above 16.
C24_StrategyAppendUpTo16 ==
    Assembling =>
        /\ AskedSize <= 16 => nano.strategy = "append" /\ BuiltByAppend
        /\ AskedSize > 16 =>
               /\ nano.strategy = "join" /\ BuiltInArray
               /\ pc = "done" => ret = Join(nano.result)

\* a string of 16 characters was built by append on the general path
C24_Witness ==
    /\ Assembling /\ pc = "done"
    /\ AskedSize = 16 /\ Len(ret) = 16
    /\ nano.strategy = "append" /\ ~IsPowerOfTwo(nano.len)

\* a string of 17 characters was built in an array
C24_WitnessArray ==
    /\ Assembling /\ pc = "done"
    /\ AskedSize = 17 /\ Len(ret) = 17
    /\ nano.strategy = "join"

\* C25: on the same alphabet, mask, size, step and byte stream the append
\* assembly and the array assembly (generateSmallID and generateLargeID, the
\* two branches of generatePowerOf2ID) read the same bytes, refill as often
\* and return the same string of `size` characters.
C25_AssemblyEquivalent ==
    pc = "twin" =>
        LET a == pair.inv[1]
            b == pair.inv[2]
        IN  /\ a.call.branch = "append" /\ b.call.branch = "join"
            /\ [a.call EXCEPT !.generator = "", !.branch = ""]
                   = [b.call EXCEPT !.generator = "", !.branch = ""]
            /\ (a.pc = "done" /\ b.pc = "done") =>
                   /\ a.ret = b.ret /\ Len(a.ret) = a.call.size
                   /\ a.read = b.read
                   /\ a.fills = b.fills /\ a.bytes = b.bytes /\ a.pos = b.pos

\* generateSmallID and generateLargeID both returned 17 characters over the
\* 49-symbol alphabet, after rejections
C25_Witness ==
    /\ pc = "twin"
    /\ pair.inv[1].call.generator = "generateSmallID" /\ pair.inv[1].pc = "done"
    /\ pair.inv[2].call.generator = "generateLargeID" /\ pair.inv[2].pc = "done"
    /\ pair.inv[1].call.chars = ALPHABET_NO_CONFUSION
    /\ Len(pair.inv[2].ret) = 17 /\ Len(pair.inv[2].read) > 17

\* both branches of generatePowerOf2ID returned 3 hex digits
C25_WitnessPowerOf2 ==
    /\ pc = "twin"
    /\ pair.inv[1].call.generator = "generatePowerOf2ID" /\ pair.inv[1].pc = "done"
    /\ pair.inv[2].pc = "done"
    /\ pair.inv[1].call.chars = ALPHABET_HEX
    /\ Len(pair.inv[2].ret) = 3

\* the two assemblies refilled their buffer (numeric alphabet, 3 digits)
C25_WitnessRefill ==
    /\ pc = "twin"
    /\ pair.inv[1].pc = "done" /\ pair.inv[2].pc = "done"
    /\ pair.inv[1].call.chars = ALPHABET_NUMERIC
    /\ pair.inv[2].fills = 2

(***************************************************************************)
(* Termination.                                                            *)
(***************************************************************************)
\* a call is under way; it has ended (returned, or raised)
Underway == pc \notin {"idle", "done", "error"}
Ended == pc \in {"done", "error"}

\* the byte is accepted by every sampler the running call may use: the mask
\* sampler of generateNanoID, the rejection sampler of every small charset
AcceptedByte(b) ==
    IF fn = "generateNanoID" THEN BitAnd(b, nano.mask) < nano.len
    ELSE \A n \in 1..SmallCharsetMax : b < (ByteValues \div n) * n

\* the source delivers an accepted byte again and again: the stream it
\* repeats holds one
SourceFair == \E k \in 1..Len(stream) : AcceptedByte(stream[k])

\* the running call has no rejection loop: generatePowerOf2ID, or
\* generateWithBiasReduction under generateToken / generateRandomSalt
RejectionFree ==
    \/ fn = "generateNanoID" /\ pc = "powerOf2"
    \/ fn \in {"generateToken", "generateRandomSalt"} /\ pc \in {"biasReduction", "biasInner"}

\* the fills of a rejection-free path when it has returned: 1, and
\* ceil(length / batchSize)
FillsFixedByLength ==
    /\ (pc = "done" /\ fn = "generateNanoID" /\ IsPowerOfTwo(nano.len)) => fills = 1
    /\ (pc = "done" /\ fn \in {"generateToken", "generateRandomSalt"}) =>
           fills = CeilDiv(srs.length, Min(Max(srs.length, MinBatchSize), MaxBatchSize))

\* C26: every call ends.  A call whose source delivers an accepted byte again
\* and again ends; a call on a rejection-free path ends on every stream, and
\* when it has returned the source was filled 1 time (generatePowerOf2ID),
\* ceil(length / batchSize) times (generateWithBiasReduction).
C26_CallsTerminate ==
    /\ (Underway /\ SourceFair) ~> Ended
    /\ (Underway /\ RejectionFree) ~> (pc = "done")
    /\ []FillsFixedByLength

\* a token of 1025 characters has returned after two fills, the stream
\* holding no byte a rejection sampler accepts
C26_Witness ==
    /\ fn = "generateToken" /\ pc = "done"
    /\ Len(ret) = LongTokenLength /\ fills = 2
    /\ stream = <<255>>

\* 17 characters over the 49-symbol alphabet have been returned, every other
\* byte having been rejected
C26_WitnessRejection ==
    /\ fn = "generateNanoID" /\ pc = "done"
    /\ nano.len = 49 /\ Len(ret) = 17 /\ rejected = 17

(***************************************************************************)
(* Alphabets of more than 256 symbols.                                     *)
(***************************************************************************)
\* every byte value has gone through the sampler of a wide alphabet
WideTallied == pc = "wide" /\ tally.byte = ByteValues

\* C27: for an alphabet of more than 256 symbols every index 0..len-1 is the
\* image of some byte value 0..255 under the sampler.
C27_EverySymbolReachable ==
    WideTallied => \A i \in 0..(tally.len - 1) : tally.count[i + 1] > 0

\* what the sampler does instead: a byte is its own index, so exactly the
\* indices 0..255 occur, once each, and no byte is rejected
C27_OnlyFirst256 ==
    WideTallied =>
        /\ tally.mask >= ByteValues - 1
        /\ \A i \in 0..(tally.len - 1) : tally.count[i + 1] = IF i < ByteValues THEN 1 ELSE 0
        /\ tally.rejects = 0

(***************************************************************************)
(* The buffer sizes of generateWithRejectionSampling.                      *)
(***************************************************************************)
\* the while loop goes on: another buffer will be requested
AnotherBuffer == pc = "buffer" /\ tally.resultIndex < tally.length

\* C28: the buffer size requested never decreases during a call: the first
\* buffer has max(2 * length, 256) bytes and every later one is at least as
\* large as the one before it, for every positive length.
C28_BufferNeverShrinks ==
    AnotherBuffer =>
        /\ tally.rounds = 0 => tally.bufferSize = Max(2 * tally.length, 256)
        /\ tally.rounds > 0 => tally.bufferSize >= tally.previous

\* the same for the lengths up to 2048, where it holds
C28_UpTo2048 == tally.length <= 2048 => C28_BufferNeverShrinks

\* a second buffer is requested after fewer than half of the characters
\* came out of the first
C28_SecondBuffer ==
    /\ AnotherBuffer /\ tally.rounds = 1
    /\ tally.length <= 2048 /\ 2 * tally.resultIndex < tally.length

(***************************************************************************)
(* The shuffle of generateComplexString.                                   *)
(***************************************************************************)
\* how often c occurs in the sequence
Occurrences(seq, c) == Cardinality({k \in DOMAIN seq : seq[k] = c})

SameMultiset(a, b) ==
    \A c \in Range(a) \cup Range(b) : Occurrences(a, c) = Occurrences(b, c)

\* [...requiredChars, ...remainingChars.split("")], from what the samplers
\* returned
Unshuffled == cx.requiredChars \o Join(srs.result)

\* C29: the shuffle of generateComplexString only permutes.  The step at i
\* reads shuffleBytes[i - 1], a byte of the n - 1 filled for the shuffle that
\* no other step reads, its swap index lies in 0..i, and allChars, and the
\* string returned, keeps the length and the multiset of characters of the
\* required characters followed by the remaining ones.
C29_ShuffleOnlyPermutes ==
    (fn = "generateComplexString" /\ pc \in {"shuffle", "done"}) =>
        /\ bytes.length = Len(Unshuffled) - 1
        /\ cx.i \in 0..(Len(Unshuffled) - 1)
        /\ cx.i > 0 =>
               /\ cx.i - 1 \in 0..(bytes.length - 1)
               /\ ShuffleIndex(ByteOf(stream, bytes, cx.i - 1), cx.i) \in 0..cx.i
        /\ Len(cx.allChars) = Len(Unshuffled)
        /\ SameMultiset(cx.allChars, Unshuffled)
        /\ pc = "done" => ret = Join(cx.allChars)

\* five characters have been returned in another order than the samplers
\* delivered them
C29_Witness ==
    /\ fn = "generateComplexString" /\ pc = "done"
    /\ Len(ret) = 5 /\ ret # Unshuffled
    /\ SameMultiset(ret, Unshuffled)

(***************************************************************************)
(* A byte source that raises.                                              *)
(***************************************************************************)
\* no byte source works on the platform
SourceDown == rng.env \in {RaisingPlatform, BarePlatform}

\* the step calls the byte source
CallsSource == fills' = fills + 1

\* C30: when the byte source raises, at the first fill or at a later one, the
\* generator raises to its caller: the call ends with the error, no string is
\* returned, and the source is not called again.
C30_SourceErrorPropagates ==
    [][/\ (SourceDown /\ CallsSource) =>
              /\ pc' = "error" /\ err' \in {PlatformError, NotSupportedError}
              /\ ret' = <<>>
              /\ UNCHANGED <<bytes, pos, requested, examined>>
       /\ pc = "error" => ~CallsSource]_vars

\* the source raised at a refill of generateSmallID / generateLargeID, after
\* characters had been produced: none is returned
C30_Witness ==
    /\ fn = "generateNanoID" /\ pc = "error" /\ err = PlatformError
    /\ fills = 2 /\ nano.i > 0 /\ ret = <<>>

\* the first fill raised, on a platform without a source
C30_WitnessFirstFill ==
    /\ fn = "generateNanoID" /\ pc = "error" /\ err = NotSupportedError
    /\ fills = 1 /\ nano.i = 0 /\ ret = <<>>

\* the second batch of a long token could not be filled
C30_WitnessCharset ==
    /\ fn = "generateToken" /\ pc = "error" /\ err = PlatformError
    /\ fills = 2 /\ ret = <<>>

====
